---- MODULE Spec2Model ----
(***************************************************************************)
(* A model of yara_validator.py: the YaraValidator orchestrator, its field *)
(* registry (TagAttributes / Positional), the field validators, the        *)
(* canonical reindexing and sort, and the rule text rebuilder.             *)
(*                                                                         *)
(* Python lists are 0-based; the operators below keep the code's 0-based   *)
(* indices and convert at the point of access (At, SetAt, Insert, Pop).    *)
(***************************************************************************)
EXTENDS Integers, Sequences, FiniteSets, TLC

VARIABLES
    required_fields,          \* YaraValidator.required_fields: key -> [optional, found, valid]
    required_fields_index,    \* YaraValidator.required_fields_index: position -> Positional
    required_fields_children, \* YaraValidator.required_fields_children: child key -> place holder
    mitre_group_alias,        \* YaraValidator.mitre_group_alias
    rule,                     \* the plyara parsed rule handed to validation()
    valid,                    \* the YaraValidatorReturn of the running call
    index_of_empty_tags,      \* local of validation()
    tags_not_initially_found, \* local of validation()
    pc,                       \* position of validation()
    args,                     \* the arguments validation() was called with
    calls,                    \* validation() calls started on this instance
    configuration             \* the declaration read_yara_cfg was given last and what came of it

vars == << required_fields, required_fields_index, required_fields_children,
           mitre_group_alias, rule, valid, index_of_empty_tags,
           tags_not_initially_found, pc, args, calls, configuration >>

----------------------------------------------------------------------------
(* Bounds of the model *)

MaxTags == 3
MaxReuseTags == 1
MaxCalls == 2

\* the most occurrences counted on one position tracker
MaxTrackerCount == 2

----------------------------------------------------------------------------
(* Python values *)

NoneVal == "<None>"

REQ_PROVIDED == "req_provided"
REQ_OPTIONAL == "req_optional"
OPT_OPTIONAL == "opt_optional"

ACTOR == "actor"
AUTHOR == "author"
REPORT == "report"
HASH == "hash"

\* str.upper() on the strings of the model
Upper(v) ==
    CASE v = "opensource" -> "OPENSOURCE"
      [] v = "OpenSource" -> "OPENSOURCE"
      [] v = "cccs" -> "CCCS"
      [] v = "malware" -> "MALWARE"
      [] v = "info" -> "INFO"
      [] v = "Mal" -> "MAL"
      [] v = "bogus" -> "BOGUS"
      [] v = "comment crew" -> "COMMENT CREW"
      [] v = "nobody" -> "NOBODY"
      [] v = "bad_actor" -> "BAD_ACTOR"
      [] v = "apt" -> "APT"
      [] v = "tlp:white" -> "TLP:WHITE"
      [] v = "secret" -> "SECRET"
      [] v = "RevEng@CCCS" -> "REVENG@CCCS"
      [] v = "reveng@CCCS" -> "REVENG@CCCS"
      [] v = "someone" -> "SOMEONE"
      [] v = "http://x" -> "HTTP://X"
      [] v = "dumper" -> "DUMPER"
      [] v = "parser" -> "PARSER"
      [] v = "name_a" -> "NAME_A"
      [] v = "name a!" -> "NAME A!"
      [] v = "Source" -> "SOURCE"
      [] v = "source" -> "SOURCE"
      [] v = "id" -> "ID"
      [] v = "fingerprint" -> "FINGERPRINT"
      [] v = "version" -> "VERSION"
      [] v = "first_imported" -> "FIRST_IMPORTED"
      [] v = "last_modified" -> "LAST_MODIFIED"
      [] v = "sharing" -> "SHARING"
      [] v = "author" -> "AUTHOR"
      [] v = "category" -> "CATEGORY"
      [] v = "category_type_child" -> "CATEGORY_TYPE_CHILD"
      [] v = "actor_type" -> "ACTOR_TYPE"
      [] v = "actor" -> "ACTOR"
      [] v = "mitre_group_child" -> "MITRE_GROUP_CHILD"
      [] v = "mitre_group" -> "MITRE_GROUP"
      [] v = "reference" -> "REFERENCE"
      [] v = "hash" -> "HASH"
      [] v = "report" -> "REPORT"
      [] v = "al_config_dumper" -> "AL_CONFIG_DUMPER"
      [] v = "al_config_parser" -> "AL_CONFIG_PARSER"
      [] v = "zzz" -> "ZZZ"
      [] OTHER -> v

\* str.lower() on the strings of the model
Lower(v) ==
    CASE v = "MALWARE" -> "malware"
      [] v = "INFO" -> "info"
      [] v = "MAL" -> "mal"
      [] v = "Source" -> "source"
      [] v = "Actor" -> "actor"
      [] OTHER -> v

\* list.insert(i, x)
Insert(seq, i, x) ==
    IF i >= Len(seq) THEN Append(seq, x)
    ELSE SubSeq(seq, 1, i) \o << x >> \o SubSeq(seq, i + 1, Len(seq))

\* list.pop(i), for an index in range
Pop(seq, i) == SubSeq(seq, 1, i) \o SubSeq(seq, i + 2, Len(seq))

\* seq[i] and seq[i] = x
At(seq, i) == seq[i + 1]
SetAt(seq, i, x) == [seq EXCEPT ![i + 1] = x]

\* A metadata tag: a dict; n is its number of keys, key and value its first pair
Tag(k, v) == [key |-> k, value |-> v, n |-> 1]
NoneTag == [key |-> NoneVal, value |-> NoneVal, n |-> 0]

\* a dict with two keys, as a caller of validation() can hand it in: the pair
\* k: v followed by the pair of SecondPair
SecondPair == [key |-> "yyy", value |-> "yyy", n |-> 1]
MultiTag(k, v) == [key |-> k, value |-> v, n |-> 2]

\* collections.OrderedDict as a sequence of pairs: d[k] = m
DictSet(d, k, m) ==
    IF \E i \in 1..Len(d) : d[i][1] = k
    THEN [i \in 1..Len(d) |-> IF d[i][1] = k THEN << k, m >> ELSE d[i]]
    ELSE Append(d, << k, m >>)

DictKeys(d) == {d[i][1] : i \in 1..Len(d)}
DictGet(d, k) == (CHOOSE i \in 1..Len(d) : d[i][1] = k)

----------------------------------------------------------------------------
(* The schema (CCCS_Yara.yml) and the values file (CCCS_Yara_values.yml)   *)
(* as compiled by import_yara_cfg / read_yara_cfg into TagAttributes.      *)

\* keys of required_fields in insertion order; a child tag is replaced by
\* its place holder (handle_child_parent_tags)
FieldOrder ==
    << "id", "fingerprint", "version", "first_imported", "last_modified",
       "sharing", "source", "author", "category", "category_type_child",
       "actor_type", "actor", "mitre_group_child", "reference", "hash",
       "report", "al_config_dumper", "al_config_parser" >>

NumFields == Len(FieldOrder)
Fields == {FieldOrder[i] : i \in 1..NumFields}
Positions == 0..(NumFields - 1)

\* TagAttributes.position
PositionOf(key) == (CHOOSE i \in 1..NumFields : FieldOrder[i] = key) - 1

\* TagAttributes.function
FunctionOf(key) ==
    CASE key = "id" -> "valid_uuid"
      [] key = "fingerprint" -> "valid_fingerprint"
      [] key = "version" -> "valid_version"
      [] key = "first_imported" -> "valid_first_imported"
      [] key = "last_modified" -> "valid_last_modified"
      [] key = "source" -> "valid_source"
      [] key = "category" -> "valid_category"
      [] key = "category_type_child" -> "valid_category_type"
      [] key = "actor" -> "valid_actor"
      [] key = "mitre_group_child" -> "mitre_group_generator"
      [] key = "al_config_dumper" -> "valid_al_config_dumper"
      [] key = "al_config_parser" -> "valid_al_config_parser"
      [] OTHER -> "valid_regex"

\* TagAttributes.optional as read from the schema
SchemaOptional(key) ==
    CASE key \in {"id", "fingerprint", "version", "first_imported",
                  "last_modified", "sharing"} -> REQ_OPTIONAL
      [] key = "source" -> REQ_PROVIDED
      [] OTHER -> OPT_OPTIONAL

\* TagAttributes.max_count: 1 for unique, -1 for not unique
MaxCountOf(key) ==
    IF key \in {"category_type_child", "mitre_group_child", "reference",
                "hash", "report"}
    THEN -1 ELSE 1

\* TagAttributes.argument
ArgRequired(key) ==
    CASE key = "source" -> "reference"
      [] key = "actor" -> "actor_type"
      [] key = "al_config_dumper" -> "al_config_parser"
      [] key = "al_config_parser" -> "al_config_dumper"
      [] OTHER -> NoneVal

ArgChild(key) ==
    CASE key = "category" -> "category_type"
      [] key = "actor" -> "mitre_group"
      [] OTHER -> NoneVal

ArgChildPlaceHolder(key) ==
    CASE key = "category" -> "category_type_child"
      [] key = "actor" -> "mitre_group_child"
      [] OTHER -> NoneVal

ArgParent(key) ==
    CASE key = "category_type_child" -> "category"
      [] key = "mitre_group_child" -> "actor"
      [] OTHER -> NoneVal

\* argument["regexExpression"]: the strings of the model the pattern fully matches
RegexLanguage(key) ==
    CASE key = "sharing" -> {"TLP:WHITE"}
      [] key = "actor_type" -> {"APT"}
      [] OTHER -> {"", "CCCS", "OPENSOURCE", "opensource", "RevEng@CCCS",
                   "reveng@CCCS", "REVENG@CCCS", "someone", "SOMEONE",
                   "http://x", "HTTP://X", "h1", "h2", "r1", "zzz", "ZZZ"}

\* re.fullmatch(regex_expression, value)
FullMatchRegex(key, value) == value \in RegexLanguage(key)

\* "x in self.category_types": category_types is the string built by
\* __parse_scheme, "^INFO$|^MALWARE$", and "in" is Python's substring test
CategoryTypeValues == {"INFO", "MALWARE"}
CategoryTypesSubstrings == CategoryTypeValues \cup {"MAL", "$|^"}
InCategoryTypes(x) == x \in CategoryTypesSubstrings

\* re.fullmatch(UNIVERSAL_REGEX, value): no lower-case letter
UniversalStrings ==
    {"OPENSOURCE", "CCCS", "MALWARE", "INFO", "APT", "TLP:WHITE", "NAME_A",
     "NAME A!", "ZZZ", "HTTP://X", "SOMEONE", "REVENG@CCCS", "1.0",
     "2020-01-01", "20-1-1", "2026-11-05", "COMMENT CREW", "NOBODY", "", "$|^"}
FullMatchUniversal(value) == value \in UniversalStrings

\* re.fullmatch(OPENSOURCE_REGEX, value)
FullMatchOpenSource(value) == value = "OPENSOURCE"

\* re.fullmatch(self.mitre_group_alias_regex, value): "^[A-Z 0-9\.-]+$"
FullMatchAlias(value) == value \in {"COMMENT CREW", "NOBODY", "APT", "CCCS", "OPENSOURCE", "MALWARE", "INFO", "ZZZ", "SOMEONE"}

\* re.fullmatch(CATEGORY_TYPE_REGEX, value): '^[A-Z\- 0-9_]*$'
FullMatchCategoryType(value) == value \in {"NAME_A", "ZZZ", "CCCS", "OPENSOURCE", "MALWARE", "INFO", "APT", "SOMEONE", "COMMENT CREW", "NOBODY", ""}

\* the knowledge base: get_group_from_alias(alias), casefold match on aliases
get_group_from_alias(alias) ==
    IF alias \in {"COMMENT CREW", "comment crew"} THEN "APT1" ELSE ""

\* the characters of the strings of the model
Digits == {"0", "1", "2", "3", "4", "5", "6", "7", "8", "9"}
LowerLetters ==
    {"a", "b", "c", "d", "e", "f", "g", "h", "i", "j", "k", "l", "m",
     "n", "o", "p", "q", "r", "s", "t", "u", "v", "w", "x", "y", "z"}
UpperLetters ==
    {"A", "B", "C", "D", "E", "F", "G", "H", "I", "J", "K", "L", "M",
     "N", "O", "P", "Q", "R", "S", "T", "U", "V", "W", "X", "Y", "Z"}

\* the character class [0-9a-zA-z] of BASE62_REGEX: the range A-z runs from
\* 'A' (65) to 'z' (122) and takes in the characters between 'Z' and 'a' (the
\* grave accent among them, which no string of the model holds)
Base62RegexClass ==
    Digits \cup LowerLetters \cup UpperLetters \cup {"[", "\\", "]", "^", "_"}

\* re.fullmatch(BASE62_REGEX, value): "^[0-9a-zA-z]+$"
FullMatchBase62(value) ==
    /\ Len(value) >= 1
    /\ \A i \in 1..Len(value) : SubSeq(value, i, i) \in Base62RegexClass

\* str(baseconv.base62.encode(uuid.uuid4().int)): 22 base-62 characters
GeneratedUuid == "uuid4base62uuid4base62"

\* validate_uuid
validate_uuid(uuid_to_check) ==
    IF FullMatchBase62(uuid_to_check)
    THEN 20 <= Len(uuid_to_check) /\ Len(uuid_to_check) <= 22
    ELSE FALSE

\* isinstance(version.parse(value), version.Version); version.parse gives a
\* LegacyVersion for a string that is no PEP 440 version
IsVersion(value) == value \in {"1.0", "2.1"}

\* current_valid_date and validate_date
current_valid_date == "2026-11-05"
validate_date(date_to_validate) == date_to_validate \in {"2026-11-05", "2020-01-01"}

----------------------------------------------------------------------------
(* The state the operators below work on: the instance fields of the       *)
(* YaraValidator, the parsed rule, the YaraValidatorReturn and the locals  *)
(* of validation(). exc is the exception raised, ret the last validator's  *)
(* return value.                                                           *)

NoException == "none"

Raise(s, e) == IF s.exc = NoException THEN [s EXCEPT !.exc = e] ELSE s

\* TagAttributes.attributefound / attributevalid / attributeinvalid
attributefound(s, key) == [s EXCEPT !.rf[key].found = TRUE]
attributevalid(s, key) == [s EXCEPT !.rf[key].valid = TRUE]
attributeinvalid(s, key) == [s EXCEPT !.rf[key].valid = FALSE]

\* Positional.increment_count on the tracker of a field
increment_count(s, key) == [s EXCEPT !.rfi[PositionOf(key)].count = @ + 1]

\* Positional.index
PositionalIndex(p) == p.starting_index + p.current_offset

\* Positional.increment_offset
\* an offset that runs past the last occurrence
increment_offset_unwrapped(p) == [p EXCEPT !.current_offset = @ + 1]

increment_offset(p) ==
    LET o == p.current_offset + 1
    IN [p EXCEPT !.current_offset = IF o >= p.count THEN 0 ELSE o]

\* valid_metadata_index
valid_metadata_index(s, index) == index < Len(s.rule.metadata)

SetValue(s, index, v) == [s EXCEPT !.rule.metadata[index + 1].value = v]
SetTag(s, index, tag) == [s EXCEPT !.rule.metadata[index + 1] = tag]
InsertTag(s, index, tag) == [s EXCEPT !.rule.metadata = Insert(@, index, tag)]
AppendTag(s, tag) == [s EXCEPT !.rule.metadata = Append(@, tag)]
PopTag(s, index) == [s EXCEPT !.rule.metadata = Pop(@, index)]
Return(s, r) == [s EXCEPT !.ret = r]

\* return self.required_fields[key].valid
ReturnValid(s, key) == [s EXCEPT !.ret = s.rf[key].valid]

\* the entry of every validator: attributefound and increment_count
FoundAndCounted(s, key) == increment_count(attributefound(s, key), key)

----------------------------------------------------------------------------
(* Content fingerprint *)

\* the characters of the strings of the model in code point order
AsciiOrder ==
    << " ", "!", "#", "$", "%", "&", "(", ")", "*", "+", ",", "-", ".", "/",
       "0", "1", "2", "3", "4", "5", "6", "7", "8", "9", ":", ";", "<", "=",
       ">", "?", "@",
       "A", "B", "C", "D", "E", "F", "G", "H", "I", "J", "K", "L", "M",
       "N", "O", "P", "Q", "R", "S", "T", "U", "V", "W", "X", "Y", "Z",
       "[", "\\", "]", "^", "_",
       "a", "b", "c", "d", "e", "f", "g", "h", "i", "j", "k", "l", "m",
       "n", "o", "p", "q", "r", "s", "t", "u", "v", "w", "x", "y", "z",
       "{", "|", "}", "~" >>

CharRank(c) == CHOOSE k \in 1..Len(AsciiOrder) : AsciiOrder[k] = c

RECURSIVE StrLessFrom(_, _, _)
\* a < b on Python strings, the characters before the i-th being equal
StrLessFrom(a, b, i) ==
    IF i > Len(b) THEN FALSE
    ELSE IF i > Len(a) THEN TRUE
    ELSE IF CharRank(SubSeq(a, i, i)) < CharRank(SubSeq(b, i, i)) THEN TRUE
    ELSE IF CharRank(SubSeq(a, i, i)) > CharRank(SubSeq(b, i, i)) THEN FALSE
    ELSE StrLessFrom(a, b, i + 1)

StrLess(a, b) == StrLessFrom(a, b, 1)

RECURSIVE SortStrings(_)
\* list.sort() on a list of strings
SortStrings(seq) ==
    IF seq = << >> THEN << >>
    ELSE LET m == CHOOSE i \in 1..Len(seq) : \A j \in 1..Len(seq) : ~StrLess(seq[j], seq[i])
         IN << seq[m] >> \o SortStrings(SubSeq(seq, 1, m - 1) \o SubSeq(seq, m + 1, Len(seq)))

RECURSIVE JoinStrings(_, _)
\* sep.join(seq)
JoinStrings(seq, sep) ==
    IF seq = << >> THEN ""
    ELSE IF Len(seq) = 1 THEN seq[1]
    ELSE seq[1] \o sep \o JoinStrings(Tail(seq), sep)

\* s.startswith(prefix) and s.endswith(suffix)
StartsWith(s, prefix) == Len(s) >= Len(prefix) /\ SubSeq(s, 1, Len(prefix)) = prefix
EndsWith(s, suffix) ==
    Len(s) >= Len(suffix) /\ SubSeq(s, Len(s) - Len(suffix) + 1, Len(s)) = suffix

RECURSIVE InsertCommas(_, _, _)
\* the loop of resort_stings_add_commas over the list it is growing
InsertCommas(list_of_strings, index, count_of_strings) ==
    IF index >= Len(list_of_strings) THEN list_of_strings
    ELSE InsertCommas(
            IF index + 1 < count_of_strings
            THEN Insert(list_of_strings, index + index + 1, ",")
            ELSE list_of_strings,
            index + 1, count_of_strings)

resort_stings_add_commas(list_of_strings) ==
    InsertCommas(SortStrings(list_of_strings), 0, Len(list_of_strings))

RECURSIVE StripNonHexFrom(_, _)
\* re.sub(r'[^a-fA-F\?0-9]+', '', value), from the i-th character on
StripNonHexFrom(value, i) ==
    IF i > Len(value) THEN ""
    ELSE (IF SubSeq(value, i, i) \in
                Digits \cup {"a", "b", "c", "d", "e", "f", "A", "B", "C", "D", "E", "F", "?"}
          THEN SubSeq(value, i, i) ELSE "")
         \o StripNonHexFrom(value, i + 1)

\* the text a string stands for in string_substitutions
SubstitutionOf(s) ==
    IF s.type = "byte" THEN StripNonHexFrom(s.value, 1)
    ELSE JoinStrings(<< s.value >> \o s.modifiers, " ")

\* string_substitutions: the keys, and the value of a key (a later string of
\* the same name replaces an earlier one)
SubstitutionKeys(strings) == [i \in 1..Len(strings) |-> strings[i].name]
SubstitutionValue(strings, name) ==
    SubstitutionOf(strings[CHOOSE i \in 1..Len(strings) :
                       /\ strings[i].name = name
                       /\ \A j \in (i + 1)..Len(strings) : strings[j].name # name])

\* the insertion order of the keys of string_substitutions
RECURSIVE DistinctKeys(_, _)
DistinctKeys(names, seen) ==
    IF names = << >> THEN << >>
    ELSE IF Head(names) \in seen THEN DistinctKeys(Tail(names), seen)
    ELSE << Head(names) >> \o DistinctKeys(Tail(names), seen \cup {Head(names)})

\* the byte strings' entries of hash_strings (lines 515-521)
ByteTokens(strings) ==
    LET bytes == SelectSeq(strings, LAMBDA s : s.type = "byte")
    IN [i \in 1..Len(bytes) |-> SubstitutionOf(bytes[i])]

\* all_strings (lines 526-536)
AllStrings(strings) ==
    LET texts == SelectSeq(strings, LAMBDA s : s.type # "byte")
    IN resort_stings_add_commas([i \in 1..Len(texts) |-> "$" \o SubstitutionOf(texts[i])])

\* regex_match_string_names_for_values: the keys the pattern
\* "^\" + name + ".*$" fully matches are those that start with name
regex_match_string_names_for_values(string_name_preface, string_name_expression, strings) ==
    LET string_name == SubSeq(string_name_expression, 1, Len(string_name_expression) - 1)
        keys == SelectSeq(DistinctKeys(SubstitutionKeys(strings), {}),
                          LAMBDA key : StartsWith(key, string_name))
    IN [i \in 1..Len(keys) |-> string_name_preface \o SubstitutionValue(strings, keys[i])]

\* what one condition term adds to hash_strings (lines 541-559)
ConditionTokens(e, strings) ==
    IF StartsWith(e, "$*") \/ StartsWith(e, "them")
    THEN AllStrings(strings)
    ELSE IF \E p \in {"$", "!", "#", "@"} : StartsWith(e, p)
    THEN IF Len(e) > 1
         THEN IF EndsWith(e, "*")
              THEN resort_stings_add_commas(
                       regex_match_string_names_for_values(
                           SubSeq(e, 1, 1), "$" \o SubSeq(e, 2, Len(e)), strings))
              ELSE IF \E i \in 1..Len(strings) : strings[i].name = "$" \o SubSeq(e, 2, Len(e))
                   THEN << SubSeq(e, 1, 1)
                             \o SubstitutionValue(strings, "$" \o SubSeq(e, 2, Len(e))) >>
                   ELSE << e >>
         ELSE << e >>
    ELSE << e >>

RECURSIVE ConditionTokensFrom(_, _)
ConditionTokensFrom(terms, strings) ==
    IF terms = << >> THEN << >>
    ELSE ConditionTokens(Head(terms), strings) \o ConditionTokensFrom(Tail(terms), strings)

\* the list hash_strings of calculate_rule_hash
HashStrings(r) == ByteTokens(r.strings) \o ConditionTokensFrom(r.condition_terms, r.strings)

\* what is hashed: "".join(hash_strings)
HashedText(r) == JoinStrings(HashStrings(r), "")

\* hashlib.sha3_256(text).hexdigest(): a digest that tells two texts apart
Sha3Hex(text) == "sha3:" \o text

\* a fingerprint that also hashes the first metadata tag: a variant the
\* fingerprint determinism property must reject
calculate_rule_hash_with_metadata(r) ==
    Sha3Hex(HashedText(r) \o (IF r.metadata = << >> THEN "" ELSE r.metadata[1].value))

calculate_rule_hash(r) == Sha3Hex(HashedText(r))

----------------------------------------------------------------------------
(* Field validators: (s, tag_index, tag_key) -> s with ret set *)

\* the fingerprint validator leaving an existing fingerprint as it is: a
\* variant the derived fingerprint property must reject
valid_fingerprint_keeping(s0, tag_index, tag_key) ==
    LET s == FoundAndCounted(s0, tag_key)
        rule_id == Tag(tag_key, calculate_rule_hash(s.rule))
        s1 == IF valid_metadata_index(s, tag_index)
              THEN IF At(s.rule.metadata, tag_index).key = tag_key
                   THEN attributevalid(s, tag_key)
                   ELSE attributevalid(InsertTag(s, tag_index, rule_id), tag_key)
              ELSE attributevalid(AppendTag(s, rule_id), tag_key)
    IN ReturnValid(s1, tag_key)

valid_fingerprint(s0, tag_index, tag_key) ==
    LET s == FoundAndCounted(s0, tag_key)
        rule_id == Tag(tag_key, calculate_rule_hash(s.rule))
        s1 == IF valid_metadata_index(s, tag_index)
              THEN IF At(s.rule.metadata, tag_index).key = tag_key
                   THEN attributevalid(SetTag(s, tag_index, rule_id), tag_key)
                   ELSE attributevalid(InsertTag(s, tag_index, rule_id), tag_key)
              ELSE attributevalid(AppendTag(s, rule_id), tag_key)
    IN ReturnValid(s1, tag_key)

\* the identifier validator overwriting an existing identifier as the
\* fingerprint validator does: a variant the generate-or-verify property must reject
valid_uuid_regenerating(s0, tag_index, tag_key) ==
    LET s == FoundAndCounted(s0, tag_key)
        rule_uuid == Tag(tag_key, GeneratedUuid)
        s1 == IF valid_metadata_index(s, tag_index)
              THEN IF At(s.rule.metadata, tag_index).key = tag_key
                   THEN attributevalid(SetTag(s, tag_index, rule_uuid), tag_key)
                   ELSE attributevalid(InsertTag(s, tag_index, rule_uuid), tag_key)
              ELSE attributevalid(AppendTag(s, rule_uuid), tag_key)
    IN ReturnValid(s1, tag_key)

valid_uuid(s0, tag_index, tag_key) ==
    LET s == FoundAndCounted(s0, tag_key)
        rule_uuid == Tag(tag_key, GeneratedUuid)
        s1 == IF valid_metadata_index(s, tag_index)
              THEN IF At(s.rule.metadata, tag_index).key = tag_key
                   THEN IF validate_uuid(At(s.rule.metadata, tag_index).value)
                        THEN attributevalid(s, tag_key)
                        ELSE attributeinvalid(s, tag_key)
                   ELSE attributevalid(InsertTag(s, tag_index, rule_uuid), tag_key)
              ELSE attributevalid(AppendTag(s, rule_uuid), tag_key)
    IN ReturnValid(s1, tag_key)

valid_regex(s0, tag_index, tag_key) ==
    IF ~valid_metadata_index(s0, tag_index) THEN Raise(s0, "IndexError")
    ELSE
    LET value == At(s0.rule.metadata, tag_index).value
        s == FoundAndCounted(s0, tag_key)
    IN IF FullMatchRegex(tag_key, value)
       THEN Return(attributevalid(s, tag_key), TRUE)
       ELSE IF FullMatchRegex(tag_key, Upper(value))
       THEN Return(SetValue(attributevalid(s, tag_key), tag_index, Upper(value)), TRUE)
       ELSE Return(attributeinvalid(s, tag_key), FALSE)

mitre_group_generator(s, tag_index, tag_key) ==
    LET place_holder == ArgChildPlaceHolder(ACTOR)
        MITRE_GROUP == IF tag_key \in Fields
                       THEN ArgChild(ArgParent(tag_key))
                       ELSE tag_key
        mitre_group == Upper(get_group_from_alias(s.alias))
        rule_group == Tag(MITRE_GROUP, mitre_group)
        resolved(t) == increment_count(attributevalid(attributefound(t, place_holder), place_holder), place_holder)
    IN IF valid_metadata_index(s, tag_index)
       THEN IF At(s.rule.metadata, tag_index).key = MITRE_GROUP
            THEN IF mitre_group # ""
                 THEN LET s1 == resolved(SetTag(s, tag_index, rule_group))
                      IN ReturnValid(s1, place_holder)
                 ELSE Return(PopTag(s, tag_index), TRUE)
            ELSE IF mitre_group # ""
                 THEN LET s1 == resolved(InsertTag(s, tag_index, rule_group))
                      IN ReturnValid(s1, place_holder)
                 ELSE Return(s, TRUE)
       ELSE IF mitre_group # ""
            THEN LET s1 == resolved(AppendTag(s, rule_group))
                 IN ReturnValid(s1, place_holder)
            ELSE Return(s, TRUE)

\* the actor validator requiring the actor type only of a matching actor
valid_actor_escalating_on_match(s0, tag_index, tag_key) ==
    IF ~valid_metadata_index(s0, tag_index) THEN Raise(s0, "IndexError")
    ELSE IF At(s0.rule.metadata, tag_index).key # tag_key THEN Raise(s0, "KeyError")
    ELSE
    LET ACTOR_TYPE == ArgRequired(tag_key)
        child_tag == ArgChild(tag_key)
        child_tag_place_holder == ArgChildPlaceHolder(tag_key)
        s == FoundAndCounted(s0, tag_key)
        actor_to_check == At(s.rule.metadata, tag_index).value
        activate(t, alias) ==
            [attributevalid(t, tag_key) EXCEPT
                !.rf[ACTOR_TYPE].optional = REQ_PROVIDED,
                !.children = (child_tag :> child_tag_place_holder) @@ @,
                !.alias = alias]
        s1 == IF FullMatchAlias(actor_to_check)
              THEN activate(s, actor_to_check)
              ELSE IF FullMatchAlias(Upper(actor_to_check))
              THEN activate(SetValue(s, tag_index, Upper(actor_to_check)), Upper(actor_to_check))
              ELSE attributeinvalid(s, tag_key)
    IN ReturnValid(s1, tag_key)

valid_actor(s0, tag_index, tag_key) ==
    IF ~valid_metadata_index(s0, tag_index) THEN Raise(s0, "IndexError")
    ELSE IF At(s0.rule.metadata, tag_index).key # tag_key THEN Raise(s0, "KeyError")
    ELSE
    LET ACTOR_TYPE == ArgRequired(tag_key)
        child_tag == ArgChild(tag_key)
        child_tag_place_holder == ArgChildPlaceHolder(tag_key)
        s == [FoundAndCounted(s0, tag_key) EXCEPT !.rf[ACTOR_TYPE].optional = REQ_PROVIDED]
        actor_to_check == At(s.rule.metadata, tag_index).value
        activate(t, alias) ==
            [attributevalid(t, tag_key) EXCEPT
                !.children = (child_tag :> child_tag_place_holder) @@ @,
                !.alias = alias]
        s1 == IF FullMatchAlias(actor_to_check)
              THEN activate(s, actor_to_check)
              ELSE IF FullMatchAlias(Upper(actor_to_check))
              THEN activate(SetValue(s, tag_index, Upper(actor_to_check)), Upper(actor_to_check))
              ELSE attributeinvalid(s, tag_key)
    IN ReturnValid(s1, tag_key)

valid_category(s0, tag_index, tag_key) ==
    IF ~valid_metadata_index(s0, tag_index) THEN Raise(s0, "IndexError")
    ELSE IF At(s0.rule.metadata, tag_index).key # tag_key THEN Raise(s0, "KeyError")
    ELSE
    LET s == FoundAndCounted(s0, tag_key)
        child_tag_place_holder == ArgChildPlaceHolder(tag_key)
        rule_category_to_check == At(s.rule.metadata, tag_index).value
        activate(t, v) ==
            [attributevalid(t, tag_key) EXCEPT
                !.children = (Lower(v) :> child_tag_place_holder) @@ @]
        s1 == IF InCategoryTypes(rule_category_to_check)
              THEN activate(s, rule_category_to_check)
              ELSE IF InCategoryTypes(Upper(rule_category_to_check))
              THEN activate(SetValue(s, tag_index, Upper(rule_category_to_check)),
                            Upper(rule_category_to_check))
              ELSE attributeinvalid(s, tag_key)
    IN ReturnValid(s1, tag_key)

valid_category_type(s0, tag_index, tag_key) ==
    LET child_tag_place_holder == ArgChildPlaceHolder("category")
        s == FoundAndCounted(s0, child_tag_place_holder)
    IN IF ~valid_metadata_index(s, tag_index) THEN Raise(s, "IndexError")
       ELSE
       LET value == At(s.rule.metadata, tag_index).value
           s1 == IF FullMatchCategoryType(value)
                 THEN attributevalid(s, child_tag_place_holder)
                 ELSE IF FullMatchCategoryType(Upper(value))
                 THEN attributevalid(SetValue(s, tag_index, Upper(value)), child_tag_place_holder)
                 ELSE attributeinvalid(s, child_tag_place_holder)
       IN ReturnValid(s1, child_tag_place_holder)

\* valid_last_modified verifying the date the tag carries instead of
\* overwriting it: a variant the overwrite property must reject
valid_last_modified_verifying(s0, tag_index, tag_key) ==
    LET s == FoundAndCounted(s0, tag_key)
        rule_date == Tag(tag_key, current_valid_date)
        s1 == IF valid_metadata_index(s, tag_index)
              THEN IF At(s.rule.metadata, tag_index).key = tag_key
                   THEN IF validate_date(At(s.rule.metadata, tag_index).value)
                        THEN attributevalid(s, tag_key)
                        ELSE attributeinvalid(s, tag_key)
                   ELSE attributevalid(InsertTag(s, tag_index, rule_date), tag_key)
              ELSE attributevalid(AppendTag(s, rule_date), tag_key)
    IN ReturnValid(s1, tag_key)

valid_last_modified(s0, tag_index, tag_key) ==
    LET s == FoundAndCounted(s0, tag_key)
        current_date == current_valid_date
        rule_date == Tag(tag_key, current_date)
        s1 == IF valid_metadata_index(s, tag_index)
              THEN IF At(s.rule.metadata, tag_index).key = tag_key
                   THEN LET t == SetValue(s, tag_index, current_date)
                        IN IF validate_date(At(t.rule.metadata, tag_index).value)
                           THEN attributevalid(t, tag_key)
                           ELSE attributeinvalid(t, tag_key)
                   ELSE attributevalid(InsertTag(s, tag_index, rule_date), tag_key)
              ELSE attributevalid(AppendTag(s, rule_date), tag_key)
    IN ReturnValid(s1, tag_key)

valid_first_imported(s0, tag_index, tag_key) ==
    LET s == FoundAndCounted(s0, tag_key)
        rule_date == Tag(tag_key, current_valid_date)
        s1 == IF valid_metadata_index(s, tag_index)
              THEN IF At(s.rule.metadata, tag_index).key = tag_key
                   THEN IF validate_date(At(s.rule.metadata, tag_index).value)
                        THEN attributevalid(s, tag_key)
                        ELSE attributeinvalid(s, tag_key)
                   ELSE attributevalid(InsertTag(s, tag_index, rule_date), tag_key)
              ELSE attributevalid(AppendTag(s, rule_date), tag_key)
    IN ReturnValid(s1, tag_key)

\* valid_source with the escalation testing the value as the tag wrote it, not
\* the upper-cased one: a variant the source/reference property must reject
valid_source_as_written(s0, tag_index, tag_key) ==
    IF ~valid_metadata_index(s0, tag_index) THEN Raise(s0, "IndexError")
    ELSE IF At(s0.rule.metadata, tag_index).key # tag_key THEN Raise(s0, "KeyError")
    ELSE
    LET REFERENCE == ArgRequired(tag_key)
        s == FoundAndCounted(s0, tag_key)
        value == At(s.rule.metadata, tag_index).value
        s1 == IF FullMatchUniversal(value)
              THEN attributevalid(s, tag_key)
              ELSE IF FullMatchUniversal(Upper(value))
              THEN attributevalid(SetValue(s, tag_index, Upper(value)), tag_key)
              ELSE attributeinvalid(s, tag_key)
        s2 == IF FullMatchOpenSource(value)
              THEN [s1 EXCEPT !.rf[REFERENCE].optional = REQ_PROVIDED]
              ELSE s1
    IN ReturnValid(s2, tag_key)

valid_source(s0, tag_index, tag_key) ==
    IF ~valid_metadata_index(s0, tag_index) THEN Raise(s0, "IndexError")
    ELSE IF At(s0.rule.metadata, tag_index).key # tag_key THEN Raise(s0, "KeyError")
    ELSE
    LET REFERENCE == ArgRequired(tag_key)
        s == FoundAndCounted(s0, tag_key)
        value == At(s.rule.metadata, tag_index).value
        source_to_check == IF ~FullMatchUniversal(value) /\ FullMatchUniversal(Upper(value))
                           THEN Upper(value) ELSE value
        s1 == IF FullMatchUniversal(value)
              THEN attributevalid(s, tag_key)
              ELSE IF FullMatchUniversal(Upper(value))
              THEN attributevalid(SetValue(s, tag_index, source_to_check), tag_key)
              ELSE attributeinvalid(s, tag_key)
        s2 == IF FullMatchOpenSource(source_to_check)
              THEN [s1 EXCEPT !.rf[REFERENCE].optional = REQ_PROVIDED]
              ELSE s1
    IN ReturnValid(s2, tag_key)

valid_version(s0, tag_index, tag_key) ==
    LET s == FoundAndCounted(s0, tag_key)
        rule_version == Tag(tag_key, "1.0")
        s1 == IF valid_metadata_index(s, tag_index)
              THEN IF At(s.rule.metadata, tag_index).key = tag_key
                   THEN IF IsVersion(At(s.rule.metadata, tag_index).value)
                        THEN attributevalid(s, tag_key)
                        ELSE attributeinvalid(s, tag_key)
                   ELSE attributevalid(InsertTag(s, tag_index, rule_version), tag_key)
              ELSE attributevalid(AppendTag(s, rule_version), tag_key)
    IN ReturnValid(s1, tag_key)

valid_al_config_dumper(s0, tag_index, tag_key) ==
    LET s == [FoundAndCounted(s0, tag_key) EXCEPT !.rf[tag_key].optional = REQ_PROVIDED]
        s1 == attributevalid(s, tag_key)
    IN ReturnValid(s1, tag_key)

valid_al_config_parser(s0, tag_index, tag_key) ==
    LET s == [FoundAndCounted(s0, tag_key) EXCEPT !.rf[tag_key].optional = REQ_PROVIDED]
        s1 == attributevalid(s, tag_key)
    IN ReturnValid(s1, tag_key)

\* fields[key].function(rule, tag_index, key): the dispatch table self.validators
CallValidator(function, s, tag_index, tag_key) ==
    CASE function = "valid_regex" -> valid_regex(s, tag_index, tag_key)
      [] function = "valid_uuid" -> valid_uuid(s, tag_index, tag_key)
      [] function = "valid_fingerprint" -> valid_fingerprint(s, tag_index, tag_key)
      [] function = "valid_version" -> valid_version(s, tag_index, tag_key)
      [] function = "valid_first_imported" -> valid_first_imported(s, tag_index, tag_key)
      [] function = "valid_last_modified" -> valid_last_modified(s, tag_index, tag_key)
      [] function = "valid_source" -> valid_source(s, tag_index, tag_key)
      [] function = "valid_category" -> valid_category(s, tag_index, tag_key)
      [] function = "valid_category_type" -> valid_category_type(s, tag_index, tag_key)
      [] function = "valid_actor" -> valid_actor(s, tag_index, tag_key)
      [] function = "mitre_group_generator" -> mitre_group_generator(s, tag_index, tag_key)
      [] function = "valid_al_config_dumper" -> valid_al_config_dumper(s, tag_index, tag_key)
      [] function = "valid_al_config_parser" -> valid_al_config_parser(s, tag_index, tag_key)

----------------------------------------------------------------------------
(* YaraValidatorReturn *)

\* a rule text: its lines (splitlines), whether it ends with a newline, and
\* whether it is ASCII only
Line(kind, text, tag, fmt) == [kind |-> kind, text |-> text, tag |-> tag, fmt |-> fmt]
Text(lines, nl, ascii) == [lines |-> lines, nl |-> nl, ascii |-> ascii]

\* YaraValidatorReturn.__init__; validated_rule is <<>> for None, << text >> when set
NewReturn(original_rule) ==
    [rule_validity |-> TRUE, metadata_tags |-> << >>, rule_warnings |-> FALSE,
     warnings |-> << >>, rule_to_validate |-> original_rule, validated_rule |-> << >>]

\* update_validity keeping every message it is given
update_validity_appending(v, rule_validity, metadata_tag, message) ==
    [v EXCEPT !.rule_validity = IF @ THEN rule_validity ELSE @,
              !.metadata_tags = Append(@, << metadata_tag, message >>)]

\* update_validity without the guard on the flag: a variant the sticky flag
\* property must reject
update_validity_overwriting(v, rule_validity, metadata_tag, message) ==
    [v EXCEPT !.rule_validity = rule_validity,
              !.metadata_tags = DictSet(@, metadata_tag, message)]

update_validity(v, rule_validity, metadata_tag, message) ==
    [v EXCEPT !.rule_validity = IF @ THEN rule_validity ELSE @,
              !.metadata_tags = DictSet(@, metadata_tag, message)]

\* update_warning recording the warning and failing the rule: a variant the
\* independence of validity from warnings must reject
update_warning_invalidating(v, rule_warning, warning_tag, message) ==
    [v EXCEPT !.rule_validity = FALSE,
              !.rule_warnings = IF ~@ THEN rule_warning ELSE @,
              !.warnings = DictSet(@, warning_tag, message)]

update_warning(v, rule_warning, warning_tag, message) ==
    [v EXCEPT !.rule_warnings = IF ~@ THEN rule_warning ELSE @,
              !.warnings = DictSet(@, warning_tag, message)]

RECURSIVE FindMeta(_, _, _, _)
\* the loop of __find_meta_start_end from line index on: << rule_start, rule_end >>
FindMeta(lines, index, rule_start, rule_end) ==
    IF index >= Len(lines) THEN << rule_start, rule_end >>
    ELSE IF rule_start > 0
         THEN IF At(lines, index).kind = "strings"
              THEN << rule_start, index >>
              ELSE FindMeta(lines, index + 1, rule_start, rule_end)
         ELSE IF At(lines, index).kind = "meta"
              THEN FindMeta(lines, index + 1, index, rule_end)
              ELSE FindMeta(lines, index + 1, rule_start, rule_end)

find_meta_start_end(rule_to_process) == FindMeta(rule_to_process.lines, 0, 0, 0)

\* lines[a:b]
Slice(lines, a, b) == SubSeq(lines, a + 1, IF b > Len(lines) THEN Len(lines) ELSE b)

\* YaraValidatorReturn.rebuild_rule, validated_rule being set
rebuild_rule(v) ==
    LET stripped == [v.validated_rule[1] EXCEPT !.nl = FALSE]
        original == v.rule_to_validate
        valid_se == find_meta_start_end(original)
        cccs_se == find_meta_start_end(stripped)
        yara_new_file ==
            Text(Slice(original.lines, 0, valid_se[1])
                     \o Slice(stripped.lines, cccs_se[1], cccs_se[2])
                     \o Slice(original.lines, valid_se[2], Len(original.lines)),
                 FALSE, original.ascii)
    IN IF original = stripped
       THEN [v EXCEPT !.validated_rule = << stripped >>]
       ELSE IF valid_se[1] # 0 /\ valid_se[2] # 0 /\ cccs_se[1] # 0 /\ cccs_se[2] # 0
                 /\ original # yara_new_file
            THEN [v EXCEPT !.validated_rule = << yara_new_file >>]
            ELSE [v EXCEPT !.validated_rule = << stripped >>]

\* the line of the strings section that defines string s
StringLineText(s) == JoinStrings(<< s.name, "=", s.value >> \o s.modifiers, " ")

\* plyara.utils.rebuild_yara_rule: the rule printed in plyara's own layout,
\* without comments, ending with a newline
PlyaraLines(r) ==
    << Line("rule", "r", NoneTag, "plyara"), Line("open", "{", NoneTag, "plyara") >>
    \o (IF r.has_metadata /\ Len(r.metadata) > 0
        THEN << Line("meta", "meta:", NoneTag, "plyara") >>
             \o [i \in 1..Len(r.metadata) |-> Line("tag", "", r.metadata[i], "plyara")]
        ELSE << >>)
    \o (IF Len(r.strings) > 0
        THEN << Line("strings", "strings:", NoneTag, "plyara") >>
             \o [i \in 1..Len(r.strings) |-> Line("string", StringLineText(r.strings[i]), NoneTag, "plyara")]
        ELSE << >>)
    \o << Line("condition", "condition:", NoneTag, "plyara") >>
    \o [i \in 1..Len(r.condition_terms) |-> Line("term", r.condition_terms[i], NoneTag, "plyara")]
    \o << Line("close", "}", NoneTag, "plyara") >>

rebuild_yara_rule(r) == Text(PlyaraLines(r), TRUE, TRUE)

----------------------------------------------------------------------------
(* Canonical reindexing and sort *)

RECURSIVE ReindexAfterPrevious(_, _, _)
\* each tracker starting at the count of the tracker before it
ReindexAfterPrevious(rfi, position_index, previous_position_values) ==
    IF position_index >= NumFields THEN rfi
    ELSE LET position ==
                 IF position_index > 0
                 THEN [rfi[position_index] EXCEPT
                         !.starting_index = previous_position_values[2]]
                 ELSE rfi[position_index]
         IN ReindexAfterPrevious([rfi EXCEPT ![position_index] = position],
                                 position_index + 1,
                                 << position.starting_index, position.count >>)

RECURSIVE Reindex(_, _, _)
\* reindex_metadata_tags from position_index on
Reindex(rfi, position_index, previous_position_values) ==
    IF position_index >= NumFields THEN rfi
    ELSE LET position ==
                 IF position_index > 0
                 THEN [rfi[position_index] EXCEPT
                         !.starting_index = previous_position_values[1] + previous_position_values[2]]
                 ELSE rfi[position_index]
         IN Reindex([rfi EXCEPT ![position_index] = position], position_index + 1,
                    << position.starting_index, position.count >>)

reindex_metadata_tags(s) == [s EXCEPT !.rfi = Reindex(@, 0, << 0, 0 >>)]

RECURSIVE ResortPlaceLastFirst(_, _, _, _, _, _)
\* the first loop of resort_metadata_tags filling the slots of a field from the
\* last one down: a variant the canonical order property must reject
ResortPlaceLastFirst(s, snapshot, i, correct_order, tracking_added, tracking_left) ==
    IF s.exc # NoException \/ i > Len(snapshot)
    THEN [s |-> s, correct_order |-> correct_order, tracking_added |-> tracking_added]
    ELSE LET tag == snapshot[i]
             recognized == tag.n = 1 /\ (tag.key \in Fields \/ tag.key \in DOMAIN s.children)
             pos == IF tag.key \in Fields THEN PositionOf(tag.key)
                    ELSE PositionOf(s.children[tag.key])
         IN IF recognized
            THEN LET positional == s.rfi[pos]
                     index == positional.starting_index + positional.count - 1
                              - positional.current_offset
                 IN IF index >= Len(correct_order) \/ index < 0
                    THEN ResortPlaceLastFirst(Raise(PopTag(s, tracking_left), "IndexError"),
                                              snapshot, i, correct_order, tracking_added,
                                              tracking_left)
                    ELSE ResortPlaceLastFirst(
                           [s EXCEPT !.rule.metadata = Pop(@, tracking_left),
                                     !.rfi[pos] = increment_offset(positional)],
                           snapshot, i + 1,
                           SetAt(correct_order, index, At(s.rule.metadata, tracking_left)),
                           tracking_added + 1, tracking_left)
            ELSE ResortPlaceLastFirst(s, snapshot, i + 1, correct_order, tracking_added,
                                      tracking_left + 1)

RECURSIVE ResortPlace(_, _, _, _, _, _)
\* the first loop of resort_metadata_tags over the snapshot list(metadata_tags):
\* snapshot index i, the live list metadata_tags, correct_order, the counters
ResortPlace(s, snapshot, i, correct_order, tracking_added, tracking_left) ==
    IF s.exc # NoException \/ i > Len(snapshot)
    THEN [s |-> s, correct_order |-> correct_order, tracking_added |-> tracking_added]
    ELSE LET tag == snapshot[i]
             recognized == tag.n = 1 /\ (tag.key \in Fields \/ tag.key \in DOMAIN s.children)
             pos == IF tag.key \in Fields THEN PositionOf(tag.key)
                    ELSE PositionOf(s.children[tag.key])
         IN IF recognized
            THEN LET positional == s.rfi[pos]
                     index == PositionalIndex(positional)
                 IN IF index >= Len(correct_order)
                    THEN ResortPlace(Raise(PopTag(s, tracking_left), "IndexError"), snapshot,
                                     i, correct_order, tracking_added, tracking_left)
                    ELSE ResortPlace(
                           [s EXCEPT !.rule.metadata = Pop(@, tracking_left),
                                     !.rfi[pos] = increment_offset(positional)],
                           snapshot, i + 1,
                           SetAt(correct_order, index, At(s.rule.metadata, tracking_left)),
                           tracking_added + 1, tracking_left)
            ELSE ResortPlace(s, snapshot, i + 1, correct_order, tracking_added,
                             tracking_left + 1)

RECURSIVE ResortLeftoverLastFirst(_, _, _)
\* the second loop taking the tags left from the end of the list: a variant
\* the leftover order property must reject
ResortLeftoverLastFirst(left, correct_order, tracking_added) ==
    IF left = << >> THEN correct_order
    ELSE ResortLeftoverLastFirst(SubSeq(left, 1, Len(left) - 1),
                                 SetAt(correct_order, tracking_added, left[Len(left)]),
                                 tracking_added + 1)

RECURSIVE ResortLeftover(_, _, _)
\* the second loop of resort_metadata_tags: the tags left are appended
ResortLeftover(left, correct_order, tracking_added) ==
    IF left = << >> THEN correct_order
    ELSE ResortLeftover(Tail(left), SetAt(correct_order, tracking_added, Head(left)),
                        tracking_added + 1)

\* line 338 after the two loops; placed is what the first loop left
ResortFinish(placed) ==
    IF placed.s.exc # NoException THEN placed.s
    ELSE [placed.s EXCEPT !.rule.metadata =
             ResortLeftover(placed.s.rule.metadata, placed.correct_order,
                            placed.tracking_added)]

resort_metadata_tags(s) ==
    ResortFinish(ResortPlace(s, s.rule.metadata, 1,
                             [i \in 1..Len(s.rule.metadata) |-> NoneTag], 0, 0))

----------------------------------------------------------------------------
(* The validation orchestrator: validation() step by step *)

\* process_key: fields is self.required_fields when in_children is FALSE and
\* self.required_fields_children when it is TRUE; a FALSE return is recorded
\* by the caller's update_validity
\* s1 is the state the validator left
RecordResponse(s1, key, tag_index) ==
    IF s1.exc # NoException \/ s1.ret THEN s1
    ELSE IF ~valid_metadata_index(s1, tag_index) THEN Raise(s1, "IndexError")
    ELSE IF At(s1.rule.metadata, tag_index).key # key THEN Raise(s1, "KeyError")
    ELSE [s1 EXCEPT !.res = update_validity(@, FALSE, key,
             << "Field has Invalid Value:", At(s1.rule.metadata, tag_index).value >>)]

process_key(s, key, in_children, tag_index) ==
    RecordResponse(
        CallValidator(IF in_children THEN FunctionOf(s.children[key]) ELSE FunctionOf(key),
                      s, tag_index, key),
        key, tag_index)

\* the structural checks looking at the text before the metadata section: a
\* variant the no-metadata property must reject
StructuralCheckAsciiFirst(s) ==
    IF ~s.res.rule_to_validate.ascii
    THEN [s EXCEPT !.res = update_validity(@, FALSE, "ascii",
                              << "There are Non-ASCII Characters Present in the Rule." >>),
                   !.pc = "done"]
    ELSE IF ~s.rule.has_metadata
    THEN [s EXCEPT !.res = update_validity(@, FALSE, "metadata", << "No Metadata Present" >>),
                   !.pc = "done"]
    ELSE IF \E i \in 1..Len(s.rule.scopes) : s.rule.scopes[i] = "global"
    THEN [s EXCEPT !.res = update_validity(@, FALSE, "scopes", << "This is a Global Rule." >>),
                   !.pc = "done"]
    ELSE [s EXCEPT !.pc = "per_tag_dispatch"]

\* the structural checks looking at the scopes before the text: a variant the
\* non-ASCII property must reject
StructuralCheckScopeFirst(s) ==
    IF ~s.rule.has_metadata
    THEN [s EXCEPT !.res = update_validity(@, FALSE, "metadata", << "No Metadata Present" >>),
                   !.pc = "done"]
    ELSE IF \E i \in 1..Len(s.rule.scopes) : s.rule.scopes[i] = "global"
    THEN [s EXCEPT !.res = update_validity(@, FALSE, "scopes", << "This is a Global Rule." >>),
                   !.pc = "done"]
    ELSE IF ~s.res.rule_to_validate.ascii
    THEN [s EXCEPT !.res = update_validity(@, FALSE, "ascii",
                              << "There are Non-ASCII Characters Present in the Rule." >>),
                   !.pc = "done"]
    ELSE [s EXCEPT !.pc = "per_tag_dispatch"]

\* the structural checks recording the failure and going on with the rule: a
\* variant the terminal failure property must reject
StructuralCheckContinuing(s) ==
    IF ~s.rule.has_metadata
    THEN [s EXCEPT !.res = update_validity(@, FALSE, "metadata", << "No Metadata Present" >>),
                   !.pc = "per_tag_dispatch"]
    ELSE IF ~s.res.rule_to_validate.ascii
    THEN [s EXCEPT !.res = update_validity(@, FALSE, "ascii",
                              << "There are Non-ASCII Characters Present in the Rule." >>),
                   !.pc = "per_tag_dispatch"]
    ELSE IF \E i \in 1..Len(s.rule.scopes) : s.rule.scopes[i] = "global"
    THEN [s EXCEPT !.res = update_validity(@, FALSE, "scopes", << "This is a Global Rule." >>),
                   !.pc = "per_tag_dispatch"]
    ELSE [s EXCEPT !.pc = "per_tag_dispatch"]

\* lines 370-384: the structural checks
StructuralCheck(s) ==
    IF ~s.rule.has_metadata
    THEN [s EXCEPT !.res = update_validity(@, FALSE, "metadata", << "No Metadata Present" >>),
                   !.pc = "done"]
    ELSE IF ~s.res.rule_to_validate.ascii
    THEN [s EXCEPT !.res = update_validity(@, FALSE, "ascii",
                              << "There are Non-ASCII Characters Present in the Rule." >>),
                   !.pc = "done"]
    ELSE IF \E i \in 1..Len(s.rule.scopes) : s.rule.scopes[i] = "global"
    THEN [s EXCEPT !.res = update_validity(@, FALSE, "scopes", << "This is a Global Rule." >>),
                   !.pc = "done"]
    ELSE [s EXCEPT !.pc = "per_tag_dispatch"]

RECURSIVE DispatchFromFoldingCase(_, _)
\* the first pass counting a tag whose key differs from a field's in case
\* only as an occurrence of that field: a variant the case-mismatch property
\* must reject
DispatchFromFoldingCase(s, tag_index) ==
    IF s.exc # NoException \/ tag_index >= Len(s.rule.metadata) THEN s
    ELSE LET tag == At(s.rule.metadata, tag_index)
             s1 == IF tag.n # 1 THEN s
                   ELSE IF tag.value = ""
                   THEN [s EXCEPT !.empties = Append(@, tag_index)]
                   ELSE IF tag.key \in Fields
                   THEN process_key(s, tag.key, FALSE, tag_index)
                   ELSE IF Lower(tag.key) \in Fields
                   THEN [FoundAndCounted(s, Lower(tag.key))
                            EXCEPT !.res = update_warning(@, TRUE, tag.key,
                               << "Warning, this metadata tag would be validated if it were lowercase." >>)]
                   ELSE [s EXCEPT !.tnif = Append(@, << tag.key, tag_index >>)]
         IN DispatchFromFoldingCase(s1, tag_index + 1)

RECURSIVE DispatchFrom(_, _)
\* lines 389-404: the first loop, from tag_index on, over the live list
DispatchFrom(s, tag_index) ==
    IF s.exc # NoException \/ tag_index >= Len(s.rule.metadata) THEN s
    ELSE LET tag == At(s.rule.metadata, tag_index)
             s1 == IF tag.n # 1 THEN s
                   ELSE IF tag.value = ""
                   THEN [s EXCEPT !.empties = Append(@, tag_index)]
                   ELSE IF tag.key \in Fields
                   THEN process_key(s, tag.key, FALSE, tag_index)
                   ELSE IF Lower(tag.key) \in Fields
                   THEN [s EXCEPT !.res = update_warning(@, TRUE, tag.key,
                           << "Warning, this metadata tag would be validated if it were lowercase." >>)]
                   ELSE [s EXCEPT !.tnif = Append(@, << tag.key, tag_index >>)]
         IN DispatchFrom(s1, tag_index + 1)

PerTagDispatch(s) ==
    [DispatchFrom([s EXCEPT !.empties = << >>, !.tnif = << >>], 0)
        EXCEPT !.pc = "second_pass"]

Reverse(seq) == [i \in 1..Len(seq) |-> seq[Len(seq) + 1 - i]]

RECURSIVE SecondFrom(_, _)
\* lines 407-420: the loop over the reversed tags_not_initially_found
SecondFrom(s, queue) ==
    IF s.exc # NoException \/ queue = << >> THEN s
    ELSE LET metadata_tag_index == Head(queue)[2]
         IN IF ~valid_metadata_index(s, metadata_tag_index)
            THEN Raise(s, "IndexError")
            ELSE LET tag == At(s.rule.metadata, metadata_tag_index)
                     s1 == IF tag.n = 1 /\ tag.key \in DOMAIN s.children
                           THEN process_key(s, tag.key, TRUE, metadata_tag_index)
                           ELSE s
                 IN SecondFrom(s1, Tail(queue))

\* the queue taken in the order of discovery
SecondPassInDiscoveryOrder(s) ==
    [SecondFrom(s, s.tnif) EXCEPT !.pc = "empty_tag_removal"]

SecondPass(s) ==
    LET s1 == [s EXCEPT !.tnif = Reverse(@)]
    IN [SecondFrom(s1, s1.tnif) EXCEPT !.pc = "empty_tag_removal"]

RECURSIVE SortDescending(_)
\* sorted(index_of_empty_tags, reverse=True)
SortDescending(seq) ==
    IF seq = << >> THEN << >>
    ELSE LET m == CHOOSE i \in 1..Len(seq) : \A j \in 1..Len(seq) : seq[j] <= seq[i]
         IN << seq[m] >> \o SortDescending(SubSeq(seq, 1, m - 1) \o SubSeq(seq, m + 1, Len(seq)))

RECURSIVE RemoveEmptyFrom(_, _)
\* lines 422-424
RemoveEmptyFrom(s, queue) ==
    IF s.exc # NoException \/ queue = << >> THEN s
    ELSE LET empty_tag == Head(queue)
         IN IF ~valid_metadata_index(s, empty_tag)
            THEN Raise(s, "IndexError")
            ELSE RemoveEmptyFrom(
                    IF At(s.rule.metadata, empty_tag).value = ""
                    THEN PopTag(s, empty_tag) ELSE s,
                    Tail(queue))

EmptyTagRemoval(s) ==
    [RemoveEmptyFrom(s, SortDescending(s.empties)) EXCEPT !.pc = "generatable_fields_pass"]

\* return_req_optional
return_req_optional(s) ==
    SelectSeq(FieldOrder, LAMBDA key : s.rf[key].optional = REQ_OPTIONAL /\ ~s.rf[key].found)
    \o (IF s.alias # NoneVal /\ s.alias # "" /\ s.rf[ACTOR].found
        THEN << ArgChildPlaceHolder(ACTOR) >> ELSE << >>)

RECURSIVE GenerateFromMarkOnly(_, _)
\* the loop of generate_required_optional_tags marking every key found without
\* calling its validator: a variant the generated fields property must reject
GenerateFromMarkOnly(s, keys) ==
    IF s.exc # NoException \/ keys = << >> THEN s
    ELSE GenerateFromMarkOnly(
            IF s.rf[Head(keys)].found THEN s ELSE attributefound(s, Head(keys)),
            Tail(keys))

RECURSIVE GenerateFrom(_, _)
\* the loop of generate_required_optional_tags
GenerateFrom(s, keys) ==
    IF s.exc # NoException \/ keys = << >> THEN s
    ELSE LET key == Head(keys)
             s1 == IF s.rf[key].found THEN s
                   ELSE IF FunctionOf(key) = "valid_regex"
                   THEN attributefound(s, key)
                   ELSE CallValidator(FunctionOf(key), s,
                            PositionalIndex(s.rfi[PositionOf(key)]), key)
         IN GenerateFrom(s1, Tail(keys))

generate_required_optional_tags(s) == GenerateFrom(s, return_req_optional(s))

GeneratableFieldsPass(s) ==
    [generate_required_optional_tags(s) EXCEPT !.pc = "requirement_sweep"]

RECURSIVE SweepFromSchemaOptional(_, _, _)
\* the sweep reading the optionality the schema declared, not the escalated
\* one: a variant the missing-required property must reject
SweepFromSchemaOptional(v, i, s) ==
    IF i > NumFields THEN v
    ELSE LET key == FieldOrder[i]
             value == s.rf[key]
             v1 == IF ~value.found /\ ~InCategoryTypes(Upper(key))
                   THEN IF SchemaOptional(key) = REQ_PROVIDED
                        THEN update_validity(v, FALSE, key, << "Missing Required Metadata Tag" >>)
                        ELSE v
                   ELSE IF s.rfi[PositionOf(key)].count > MaxCountOf(key)
                           /\ MaxCountOf(key) # -1
                        THEN update_validity(v, FALSE, key,
                                             << "Too Many Instances of Metadata Tag." >>)
                        ELSE v
         IN SweepFromSchemaOptional(v1, i + 1, s)

RECURSIVE SweepFromAtLimit(_, _, _)
\* the sweep reporting a field that has reached its limit: a variant the
\* cardinality property must reject
SweepFromAtLimit(v, i, s) ==
    IF i > NumFields THEN v
    ELSE LET key == FieldOrder[i]
             value == s.rf[key]
             v1 == IF ~value.found /\ ~InCategoryTypes(Upper(key))
                   THEN IF value.optional = REQ_PROVIDED
                        THEN update_validity(v, FALSE, key, << "Missing Required Metadata Tag" >>)
                        ELSE v
                   ELSE IF s.rfi[PositionOf(key)].count >= MaxCountOf(key)
                           /\ MaxCountOf(key) # -1
                        THEN update_validity(v, FALSE, key,
                                             << "Too Many Instances of Metadata Tag." >>)
                        ELSE v
         IN SweepFromAtLimit(v1, i + 1, s)

RECURSIVE SweepFrom(_, _, _)
\* lines 428-436, from the i-th key of required_fields on
SweepFrom(v, i, s) ==
    IF i > NumFields THEN v
    ELSE LET key == FieldOrder[i]
             value == s.rf[key]
             v1 == IF ~value.found /\ ~InCategoryTypes(Upper(key))
                   THEN IF value.optional = REQ_PROVIDED
                        THEN update_validity(v, FALSE, key, << "Missing Required Metadata Tag" >>)
                        ELSE v
                   ELSE IF s.rfi[PositionOf(key)].count > MaxCountOf(key)
                           /\ MaxCountOf(key) # -1
                        THEN update_validity(v, FALSE, key,
                                             << "Too Many Instances of Metadata Tag." >>)
                        ELSE v
         IN SweepFrom(v1, i + 1, s)

\* line 438: the branch on valid.rule_validity
\* the branch of line 438 taken whatever the flag: a variant the canonical
\* text property must reject
AfterSweepCanonicalizing(s) == [s EXCEPT !.pc = "canonicalize"]

AfterSweep(s) ==
    [s EXCEPT !.pc = IF s.res.rule_validity THEN "canonicalize" ELSE "warning_pass"]

RequirementSweep(s) == AfterSweep([s EXCEPT !.res = SweepFrom(@, 1, s)])

\* lines 438-442; plyara's rebuild_yara_rule fails on a None left in the metadata
\* lines 441-442 on the resorted rule
SetAndRebuild(s1) ==
    IF s1.exc # NoException THEN s1
    ELSE IF \E i \in 1..Len(s1.rule.metadata) : s1.rule.metadata[i] = NoneTag
    THEN Raise(s1, "AttributeError")
    ELSE [s1 EXCEPT !.res = rebuild_rule(
              [@ EXCEPT !.validated_rule = << rebuild_yara_rule(s1.rule) >>])]

Canonicalize(s) ==
    [SetAndRebuild(resort_metadata_tags(reindex_metadata_tags(s)))
        EXCEPT !.pc = "warning_pass"]

\* the tags of the rule a warning loop looks at
SingleKeyTags(s, key) ==
    {i \in 1..Len(s.rule.metadata) :
        s.rule.metadata[i].n = 1 /\ s.rule.metadata[i].key = key}

warning_author_no_report_check(s) ==
    IF s.rf[AUTHOR].found /\ ~s.rf[REPORT].found
       /\ \E i \in SingleKeyTags(s, AUTHOR) :
             s.rule.metadata[i].value \in {"RevEng@CCCS", "reveng@CCCS"}
    THEN [s EXCEPT !.res = update_warning(@, TRUE, REPORT,
            << "Rule is authored by the CCCS but no report is referenced." >>)]
    ELSE s

warning_author_no_hash_check(s) ==
    IF s.rf[AUTHOR].found /\ ~s.rf[HASH].found
       /\ \E i \in SingleKeyTags(s, AUTHOR) : s.rule.metadata[i].value = "RevEng@CCCS"
    THEN [s EXCEPT !.res = update_warning(@, TRUE, HASH,
            << "Rule is authored by the CCCS but no hash is referenced." >>)]
    ELSE s

RECURSIVE ActorWarnings(_, _, _)
\* the loop of warning_actor_no_mitre_group from tag i on
ActorWarnings(v, metadata, i) ==
    IF i > Len(metadata) THEN v
    ELSE ActorWarnings(
            IF metadata[i].n = 1 /\ metadata[i].key = ACTOR
            THEN update_warning(v, TRUE, ACTOR,
                    << "Actor: ", metadata[i].value, " was not found in MITRE ATT&CK dataset." >>)
            ELSE v,
            metadata, i + 1)

\* the actor heuristic without the test on the group placeholder: a variant
\* the actor warning property must reject
warning_actor_whenever_found(s) ==
    IF s.rf[ACTOR].found
    THEN [s EXCEPT !.res = ActorWarnings(@, s.rule.metadata, 1)]
    ELSE s

warning_actor_no_mitre_group(s) ==
    IF s.rf[ACTOR].found /\ ~s.rf[ArgChildPlaceHolder(ACTOR)].found
    THEN [s EXCEPT !.res = ActorWarnings(@, s.rule.metadata, 1)]
    ELSE s

\* warning_check, line 444
WarningPass(s) ==
    [warning_actor_no_mitre_group(
        warning_author_no_hash_check(warning_author_no_report_check(s)))
     EXCEPT !.pc = "done"]

\* an exception leaves validation()
Finish(s) == IF s.exc # NoException THEN [s EXCEPT !.pc = "raised"] ELSE s

\* one step of validation() from where s stands
Step(s) ==
    LET s1 == CASE s.pc = "structural_check" -> StructuralCheck(s)
                [] s.pc = "per_tag_dispatch" -> PerTagDispatch(s)
                [] s.pc = "second_pass" -> SecondPass(s)
                [] s.pc = "empty_tag_removal" -> EmptyTagRemoval(s)
                [] s.pc = "generatable_fields_pass" -> GeneratableFieldsPass(s)
                [] s.pc = "requirement_sweep" -> RequirementSweep(s)
                [] s.pc = "canonicalize" -> Canonicalize(s)
                [] s.pc = "warning_pass" -> WarningPass(s)
    IN Finish(s1)

RECURSIVE RunToEnd(_)
\* validation() run to its return or to the exception it raises
RunToEnd(s) == IF s.pc \in {"done", "raised"} THEN s ELSE RunToEnd(Step(s))

----------------------------------------------------------------------------
(* Inputs: parsed rules and their texts *)

TextString == [name |-> "$a", value |-> "x", type |-> "text", modifiers |-> << >>]

\* the plyara parsed rule: 'metadata' (when has_metadata), 'strings',
\* 'condition_terms', 'scopes'
ParsedRule(tags, has_strings, is_global, has_metadata) ==
    [metadata |-> IF has_metadata THEN tags ELSE << >>,
     has_metadata |-> has_metadata,
     strings |-> IF has_strings THEN << TextString >> ELSE << >>,
     condition_terms |-> IF has_strings THEN << "$a" >> ELSE << "true" >>,
     scopes |-> IF is_global THEN << "global" >> ELSE << >>]

\* a rule file as its author laid it out: a comment above the rule, the
\* brace on the rule line, the author's own spacing
UserLines(r) ==
    << Line("comment", "// note", NoneTag, "user"), Line("rule", "r {", NoneTag, "user") >>
    \o (IF r.has_metadata
        THEN << Line("meta", "meta:", NoneTag, "user") >>
             \o [i \in 1..Len(r.metadata) |-> Line("tag", "", r.metadata[i], "user")]
        ELSE << >>)
    \o (IF Len(r.strings) > 0
        THEN << Line("strings", "strings:", NoneTag, "user") >>
             \o [i \in 1..Len(r.strings) |-> Line("string", StringLineText(r.strings[i]), NoneTag, "user")]
        ELSE << >>)
    \o << Line("condition", "condition:", NoneTag, "user") >>
    \o [i \in 1..Len(r.condition_terms) |-> Line("term", r.condition_terms[i], NoneTag, "user")]
    \o << Line("close", "}", NoneTag, "user") >>

\* the text the rule was parsed from
RuleText(r, style, nl, ascii) ==
    Text(IF style = "plyara" THEN PlyaraLines(r) ELSE UserLines(r), nl, ascii)

RECURSIVE ParsedTags(_, _)
\* the tags plyara reads from the metadata lines from line i on: one
\* single-key tag for each key = value line, so two for the lines a dict
\* with two keys was printed as
ParsedTags(tag_lines, i) ==
    IF i > Len(tag_lines) THEN << >>
    ELSE (IF tag_lines[i].tag.n = 2
          THEN << Tag(tag_lines[i].tag.key, tag_lines[i].tag.value), SecondPair >>
          ELSE << tag_lines[i].tag >>)
         \o ParsedTags(tag_lines, i + 1)

\* plyara's parse of a text: the tags of the metadata lines
ParseText(text, r) ==
    LET tag_lines == SelectSeq(text.lines, LAMBDA l : l.kind = "tag")
    IN [r EXCEPT !.metadata = ParsedTags(tag_lines, 1),
                 !.has_metadata = \E i \in 1..Len(text.lines) : text.lines[i].kind = "meta"]

Shape(has_strings, style, nl, ascii, is_global, has_metadata) ==
    [has_strings |-> has_strings, style |-> style, nl |-> nl, ascii |-> ascii,
     is_global |-> is_global, has_metadata |-> has_metadata]

UsualShape == Shape(TRUE, "user", TRUE, TRUE, FALSE, TRUE)

\* the arguments of one validation() call
Arguments(tags, shape) ==
    LET r == ParsedRule(tags, shape.has_strings, shape.is_global, shape.has_metadata)
    IN [rule |-> r, string |-> RuleText(r, shape.style, shape.nl, shape.ascii)]

\* the sequences over S of length at most n
RECURSIVE SeqsUpTo(_, _)
SeqsUpTo(S, n) ==
    IF n = 0 THEN {<< >>}
    ELSE LET shorter == SeqsUpTo(S, n - 1)
         IN shorter \cup {Append(q, x) : q \in shorter, x \in S}

\* a metadata section holds at least one tag
TagSeqs(S, n) == SeqsUpTo(S, n) \ {<< >>}

\* families of input tags; the rules of the model are the sequences of at
\* most MaxTags tags of one family
TagFamilies ==
    { {Tag("source", "OPENSOURCE"), Tag("source", "opensource"), Tag("source", "CCCS"),
       Tag("reference", "http://x"), Tag("reference", "")},
      {Tag("source", "CCCS"), Tag("actor", "COMMENT CREW"), Tag("actor", "nobody"),
       Tag("actor", "bad_actor"), Tag("actor_type", "APT"), Tag("actor_type", ""),
       Tag("mitre_group", "zzz")},
      {Tag("source", "CCCS"), Tag("al_config_dumper", "dumper"),
       Tag("al_config_parser", "parser"), Tag("zzz", "zzz"),
       MultiTag("source", "CCCS")},
      {Tag("source", "CCCS"), Tag("category", "malware"), Tag("category", "bogus"),
       Tag("category", "Mal"), Tag("malware", "NAME_A"), Tag("malware", "name a!")},
      {Tag("source", "CCCS"), Tag("id", "0123456789abcdefABCDEF"), Tag("id", "zzz"),
       Tag("id", "0123456789abcdefABC_EF"), Tag("id", "0123456789abcdefAB-DEF"),
       Tag("id", "0123456789abcdefABC"), Tag("id", "0123456789abcdefABCDEFG"),
       Tag("version", "2.1"), Tag("version", "zzz"), Tag("sharing", "tlp:white")},
      {Tag("source", "CCCS"), Tag("fingerprint", "zzz"), Tag("first_imported", "2020-01-01"),
       Tag("first_imported", "20-1-1"), Tag("last_modified", "20-1-1"),
       Tag("last_modified", "2020-01-01")},
      {Tag("source", "CCCS"), Tag("Source", "CCCS"), Tag("author", "RevEng@CCCS"),
       Tag("author", "reveng@CCCS"), Tag("hash", "h1"), Tag("hash", "h2"), Tag("report", "r1")} }

TextFamily == {Tag("source", "CCCS"), Tag("version", "1.0"), Tag("last_modified", "2026-11-05")}

Booleans == {TRUE, FALSE}

TextShapes ==
    {Shape(hs, st, nl, TRUE, FALSE, TRUE) : hs \in Booleans, st \in {"plyara", "user"}, nl \in Booleans}
    \cup {Shape(TRUE, "user", TRUE, a, g, m) : a \in Booleans, g \in Booleans, m \in Booleans}

\* a string of the strings section as plyara parses it
StringDef(name, value, type, modifiers) ==
    [name |-> name, value |-> value, type |-> type, modifiers |-> modifiers]

\* string tables and condition term sequences of the rules of the model
StringTables ==
    { << StringDef("$a", "x", "text", << >>) >>,
      << StringDef("$a", "x", "text", << "wide" >>) >>,
      << StringDef("$a", "x", "text", << >>), StringDef("$b", "y", "text", << >>) >>,
      << StringDef("$a", "x", "text", << >>), StringDef("$b", "z", "text", << >>) >>,
      << StringDef("$b", "y", "text", << "nocase" >>), StringDef("$a", "x", "text", << >>) >>,
      << StringDef("$h", "{ AB ?? }", "byte", << >>) >>,
      << StringDef("$h", "{ AB CD }", "byte", << >>) >>,
      << StringDef("$a", "x", "text", << >>), StringDef("$h", "{ AB CD }", "byte", << >>) >>,
      << StringDef("$h", "{ AB CD }", "byte", << >>), StringDef("$a", "x", "text", << >>) >>,
      << StringDef("$b", "y", "text", << >>), StringDef("$a", "x", "text", << >>) >>,
      << StringDef("$h", "{ AB CD }", "byte", << >>), StringDef("$g", "{ EF }", "byte", << >>) >>,
      << StringDef("$g", "{ EF }", "byte", << >>), StringDef("$h", "{ AB CD }", "byte", << >>) >> }

ConditionSequences ==
    { << "$a" >>, << "$a", "and", "$b" >>, << "any", "of", "them" >>,
      << "any", "of", "(", "$a*", ")" >>, << "#a", ">", "1" >>, << "$h" >>, << "true" >> }

Contents == {[strings |-> t, condition_terms |-> c] : t \in StringTables, c \in ConditionSequences}

\* the content (strings and condition terms) of a parsed rule
ContentOf(r) == [strings |-> r.strings, condition_terms |-> r.condition_terms]

\* a rule with this content, laid out in this style
ContentArguments(tags, style, content) ==
    LET r == [ParsedRule(tags, TRUE, FALSE, TRUE) EXCEPT
                 !.strings = content.strings,
                 !.condition_terms = content.condition_terms]
    IN [rule |-> r, string |-> RuleText(r, style, TRUE, TRUE)]

\* the metadata the rules of one content are given
ContentTags ==
    { << Tag("source", "CCCS") >>,
      << Tag("source", "CCCS"), Tag("fingerprint", "zzz") >>,
      << Tag("fingerprint", "h1"), Tag("source", "CCCS"), Tag("hash", "h1") >>,
      << Tag("fingerprint", "zzz"), Tag("fingerprint", "h1") >> }

\* longer rules: an unresolvable group tag ahead of a tag without a value
LongRules ==
    { << Tag("mitre_group", "zzz"), Tag("actor", "nobody"), Tag("actor_type", "APT"),
         Tag("mitre_group", ""), Tag("source", "CCCS") >>,
      << Tag("mitre_group", "zzz"), Tag("actor", "nobody"), Tag("actor_type", ""),
         Tag("source", "CCCS") >>,
      << Tag("actor", "nobody"), Tag("actor_type", "APT"), Tag("mitre_group", "zzz"),
         Tag("mitre_group", "h1"), Tag("source", "CCCS") >>,
      << Tag("mitre_group", "zzz"), Tag("actor", "nobody"), Tag("actor_type", "APT"),
         Tag("mitre_group", ""), Tag("source", "CCCS"), Tag("hash", "h1") >> }

Inputs ==
    {Arguments(tags, UsualShape) : tags \in UNION {TagSeqs(F, MaxTags) : F \in TagFamilies}}
    \cup {Arguments(tags, shape) : tags \in TagSeqs(TextFamily, MaxTags), shape \in TextShapes}
    \cup {ContentArguments(tags, style, content) :
              tags \in ContentTags, style \in {"plyara", "user"}, content \in Contents}
    \cup {Arguments(tags, UsualShape) : tags \in LongRules}

ReuseFamily ==
    {Tag("source", "OPENSOURCE"), Tag("source", "CCCS"), Tag("actor", "COMMENT CREW"),
     Tag("category", "MALWARE"), Tag("reference", "http://x")}

ReuseInputs == {Arguments(tags, UsualShape) : tags \in TagSeqs(ReuseFamily, MaxReuseTags)}

----------------------------------------------------------------------------
(* Compiling the registry: read_yara_cfg on one declaration of CCCS_Yara.yml *)

\* the values yaml.safe_load gives the parameters 'optional' and 'unique'
YamlNone == [type |-> "none", str |-> "", int |-> 0]
YamlBool(b) == [type |-> "bool", str |-> "", int |-> IF b THEN 1 ELSE 0]
YamlStr(v) == [type |-> "str", str |-> v, int |-> 0]
YamlInt(n) == [type |-> "int", str |-> "", int |-> n]

\* re.fullmatch("(?i)^y$|yes", str(x)), re.fullmatch("(?i)^n$|no", str(x)) and
\* re.fullmatch("(?i)optional", str(x)): str() of a bool or an int matches none
FullMatchYes(x) ==
    x.type = "str" /\ x.str \in {"y", "Y", "yes", "yeS", "yEs", "yES", "Yes", "YeS", "YEs", "YES"}
FullMatchNo(x) == x.type = "str" /\ x.str \in {"n", "N", "no", "nO", "No", "NO"}
FullMatchOptional(x) == x.type = "str" /\ x.str \in {"optional", "Optional", "OPTIONAL"}

\* the truth value Python gives a parameter that is None or a string
Truthy(v) == v \notin {NoneVal, ""}

\* the keys of self.validators
ValidatorNames ==
    {"valid_regex", "valid_uuid", "valid_fingerprint", "valid_version",
     "valid_first_imported", "valid_last_modified", "valid_source", "valid_category",
     "valid_category_type", "valid_mitre_att", "valid_actor", "mitre_group_generator",
     "valid_al_config_dumper", "valid_al_config_parser"}

\* TagAttributes(tag_validator, tag_optional, tag_max_count, tag_position, tag_argument)
TagAttributes(tag_validator, tag_optional, tag_max_count, tag_position, tag_argument) ==
    [function |-> tag_validator, optional |-> tag_optional, max_count |-> tag_max_count,
     position |-> tag_position, argument |-> tag_argument, found |-> FALSE, valid |-> FALSE]

NoArgument ==
    [kind |-> "none", fileName |-> NoneVal, valueName |-> NoneVal, regexExpression |-> NoneVal]

NoAttributes == TagAttributes(NoneVal, NoneVal, 0, 0, NoArgument)

\* what becomes of one declaration: a TagAttributes instance, exit(1) after a
\* message, or an exception
Registered(attributes) == [outcome |-> "registered", message |-> "", attributes |-> attributes]
Exit(message) == [outcome |-> "exit", message |-> message, attributes |-> NoAttributes]
Raised(exception) == [outcome |-> "raised", message |-> exception, attributes |-> NoAttributes]

\* the files next to the validator and the value names they hold
RegexValues(file_name, regex_tag) ==
    IF file_name = "CCCS_Yara_values.yml" /\ regex_tag = "category_types"
    THEN << "INFO", "MALWARE" >>
    ELSE << >>

\* read_regex_values: "^v1$|^v2$" from the values under regex_tag in the file
read_regex_values(file_name, regex_tag) ==
    LET values == RegexValues(file_name, regex_tag)
    IN JoinStrings([i \in 1..Len(values) |-> "^" \o values[i] \o "$"], "|")

\* lines 1316-1354 with the file reference taken whenever it is complete,
\* whatever else is given: a variant the exclusivity property must reject
RegexArgumentFileFirst(tag_argument) ==
    IF tag_argument.kind = "none" THEN Exit("has a missing parameter - argument")
    ELSE IF tag_argument.kind # "dict"
    THEN Exit("has a parameter with invalid format - argument")
    ELSE IF Truthy(tag_argument.fileName) /\ Truthy(tag_argument.valueName)
    THEN Registered([NoAttributes EXCEPT !.argument =
             [tag_argument EXCEPT !.regexExpression =
                 read_regex_values(tag_argument.fileName, tag_argument.valueName)]])
    ELSE IF Truthy(tag_argument.regexExpression)
    THEN Registered([NoAttributes EXCEPT !.argument = tag_argument])
    ELSE Exit("is missing a parameter - regexExpression")

\* lines 1316-1354: the argument of a declaration that uses valid_regex; the
\* attributes of a Registered outcome hold the argument only
RegexArgument(tag_argument) ==
    IF tag_argument.kind = "none" THEN Exit("has a missing parameter - argument")
    ELSE IF tag_argument.kind # "dict"
    THEN Exit("has a parameter with invalid format - argument")
    ELSE IF Truthy(tag_argument.fileName)
    THEN IF Truthy(tag_argument.valueName)
         THEN IF Truthy(tag_argument.regexExpression)
              THEN Exit("has too many parameters - fileName | valueName | regexExpression")
              ELSE IF RegexValues(tag_argument.fileName, tag_argument.valueName) = << >>
              THEN Raised(IF tag_argument.fileName = "CCCS_Yara_values.yml"
                          THEN "KeyError" ELSE "FileNotFoundError")
              ELSE Registered([NoAttributes EXCEPT !.argument =
                       [tag_argument EXCEPT !.regexExpression =
                           read_regex_values(tag_argument.fileName, tag_argument.valueName)]])
         ELSE IF Truthy(tag_argument.regexExpression)
              THEN Exit("has too many parameters - fileName | regexExpression")
              ELSE Exit("is missing a parameter - valueName")
    ELSE IF Truthy(tag_argument.valueName)
    THEN IF Truthy(tag_argument.regexExpression)
         THEN Exit("has too many parameters - valueName | regexExpression")
         ELSE Exit("is missing a parameter - fileName")
    ELSE IF ~Truthy(tag_argument.regexExpression)
    THEN Exit("is missing a parameter - regexExpression")
    ELSE Registered([NoAttributes EXCEPT !.argument = tag_argument])

\* lines 1275-1286: tag_optional, NoneVal after exit(1)
TagOptional(optional) ==
    IF optional.type = "none" THEN NoneVal
    ELSE IF (optional.type = "bool" /\ optional.int = 1) \/ FullMatchYes(optional)
    THEN OPT_OPTIONAL
    ELSE IF (optional.type = "bool" /\ optional.int = 0) \/ FullMatchNo(optional)
    THEN REQ_PROVIDED
    ELSE IF FullMatchOptional(optional) THEN REQ_OPTIONAL
    ELSE NoneVal

\* lines 1292-1300: can the parameter 'unique' be read, and tag_max_count
UniqueReadable(unique) ==
    \/ unique.type \in {"bool", "int"}
    \/ FullMatchYes(unique) \/ FullMatchNo(unique)

TagMaxCount(unique) ==
    IF (unique.type = "bool" /\ unique.int = 1) \/ FullMatchYes(unique) THEN 1
    ELSE IF (unique.type = "bool" /\ unique.int = 0) \/ FullMatchNo(unique) THEN -1
    ELSE unique.int

\* read_yara_cfg(tag, params, tag_position); the messages without the name
\* of the tag
read_yara_cfg(params, tag_position) ==
    IF params.optional.type = "none" THEN Exit("has a missing parameter - optional")
    ELSE IF TagOptional(params.optional) = NoneVal
    THEN Exit("has an invalid parameter - optional")
    ELSE IF params.unique.type = "none" THEN Exit("has a missing parameter - unique")
    ELSE IF ~UniqueReadable(params.unique) THEN Exit("has an invalid parameter - unique")
    ELSE IF ~Truthy(params.validator) THEN Exit("has a missing parameter - validator")
    ELSE IF params.validator \notin ValidatorNames THEN Exit("Validatior is not defined")
    ELSE IF params.validator = "valid_regex"
            /\ RegexArgument(params.argument).outcome # "registered"
    THEN RegexArgument(params.argument)
    ELSE Registered(TagAttributes(params.validator, TagOptional(params.optional),
                                  TagMaxCount(params.unique), tag_position,
                                  IF params.validator = "valid_regex"
                                  THEN RegexArgument(params.argument).attributes.argument
                                  ELSE params.argument))

\* the declarations of the model
Declaration(optional, unique, validator, argument) ==
    [optional |-> optional, unique |-> unique, validator |-> validator, argument |-> argument]

DeclaredArguments ==
    {NoArgument, [NoArgument EXCEPT !.kind = "string"]}
    \cup {[kind |-> "dict", fileName |-> f, valueName |-> v, regexExpression |-> r] :
             f \in {NoneVal, "", "CCCS_Yara_values.yml", "missing.yml"},
             v \in {NoneVal, "", "category_types", "no_such_values"},
             r \in {NoneVal, "", "^x$"}}

Declarations ==
    {Declaration(o, u, v, a) :
        o \in {YamlNone, YamlBool(TRUE), YamlStr("No"), YamlStr("optional"), YamlStr("maybe")},
        u \in {YamlNone, YamlBool(FALSE), YamlStr("yes"), YamlInt(2), YamlStr("many")},
        v \in {NoneVal, "valid_regex", "valid_uuid", "no_such_validator"},
        a \in DeclaredArguments}

NoDeclaration == Declaration(YamlNone, YamlNone, NoneVal, NoArgument)

NotConfigured ==
    [declaration |-> NoDeclaration, outcome |-> "none", message |-> "",
     attributes |-> NoAttributes]

----------------------------------------------------------------------------
(* The state machine *)

\* YaraValidator.__init__
FreshRequiredFields ==
    [key \in Fields |-> [optional |-> SchemaOptional(key), found |-> FALSE, valid |-> FALSE]]
FreshRequiredFieldsIndex ==
    [i \in Positions |-> [starting_index |-> i, count |-> 0, current_offset |-> 0]]
FreshChildren == << >>

NoArguments == Arguments(<< >>, Shape(FALSE, "plyara", FALSE, TRUE, FALSE, FALSE))

\* the state the operators work on, read from the variables
S == [rf |-> required_fields, rfi |-> required_fields_index,
      children |-> required_fields_children, alias |-> mitre_group_alias,
      rule |-> rule, res |-> valid, empties |-> index_of_empty_tags,
      tnif |-> tags_not_initially_found, pc |-> pc, exc |-> NoException, ret |-> FALSE]

\* validation(a.rule, a.string) entered on an instance in state s
Enter(s, a) ==
    [s EXCEPT !.rule = a.rule, !.res = NewReturn(a.string), !.empties = << >>,
              !.tnif = << >>, !.pc = "structural_check", !.exc = NoException, !.ret = FALSE]

\* a freshly constructed YaraValidator
FreshState ==
    [rf |-> FreshRequiredFields, rfi |-> FreshRequiredFieldsIndex,
     children |-> FreshChildren, alias |-> NoneVal,
     rule |-> NoArguments.rule, res |-> NewReturn(NoArguments.string), empties |-> << >>,
     tnif |-> << >>, pc |-> "idle", exc |-> NoException, ret |-> FALSE]

\* run_yara_validator: validation() on a fresh instance, run to its end
RunFresh(a) == RunToEnd(Enter(FreshState, a))

Apply(s) ==
    /\ required_fields' = s.rf
    /\ required_fields_index' = s.rfi
    /\ required_fields_children' = s.children
    /\ mitre_group_alias' = s.alias
    /\ rule' = s.rule
    /\ valid' = s.res
    /\ index_of_empty_tags' = s.empties
    /\ tags_not_initially_found' = s.tnif
    /\ pc' = s.pc
    /\ UNCHANGED configuration

Init ==
    /\ required_fields = FreshRequiredFields
    /\ required_fields_index = FreshRequiredFieldsIndex
    /\ required_fields_children = FreshChildren
    /\ mitre_group_alias = NoneVal
    /\ rule = NoArguments.rule
    /\ valid = NewReturn(NoArguments.string)
    /\ index_of_empty_tags = << >>
    /\ tags_not_initially_found = << >>
    /\ pc = "idle"
    /\ args = NoArguments
    /\ calls = 0
    /\ configuration = NotConfigured

\* run_yara_validator calls validation() on the instance it has just built
Validation_Start ==
    /\ pc = "idle"
    /\ calls = 0
    /\ \E a \in Inputs :
         /\ Apply(Enter(S, a))
         /\ args' = a
    /\ calls' = 1

\* a caller that keeps the instance calls validation() on it again
Validation_Reuse ==
    /\ pc \in {"idle", "done", "raised"}
    /\ calls < MaxCalls
    /\ \E a \in ReuseInputs :
         /\ Apply(Enter(S, a))
         /\ args' = a
    /\ calls' = calls + 1

Validation_StructuralCheck ==
    /\ pc = "structural_check"
    /\ Apply(Finish(StructuralCheck(S)))
    /\ UNCHANGED << args, calls >>

Validation_PerTagDispatch ==
    /\ pc = "per_tag_dispatch"
    /\ Apply(Finish(PerTagDispatch(S)))
    /\ UNCHANGED << args, calls >>

Validation_SecondPass ==
    /\ pc = "second_pass"
    /\ Apply(Finish(SecondPass(S)))
    /\ UNCHANGED << args, calls >>

Validation_EmptyTagRemoval ==
    /\ pc = "empty_tag_removal"
    /\ Apply(Finish(EmptyTagRemoval(S)))
    /\ UNCHANGED << args, calls >>

Validation_GeneratableFieldsPass ==
    /\ pc = "generatable_fields_pass"
    /\ Apply(Finish(GeneratableFieldsPass(S)))
    /\ UNCHANGED << args, calls >>

Validation_RequirementSweep ==
    /\ pc = "requirement_sweep"
    /\ Apply(Finish(RequirementSweep(S)))
    /\ UNCHANGED << args, calls >>

Validation_Canonicalize ==
    /\ pc = "canonicalize"
    /\ Apply(Finish(Canonicalize(S)))
    /\ UNCHANGED << args, calls >>

Validation_WarningPass ==
    /\ pc = "warning_pass"
    /\ Apply(Finish(WarningPass(S)))
    /\ UNCHANGED << args, calls >>

Phases ==
    \/ Validation_StructuralCheck
    \/ Validation_PerTagDispatch
    \/ Validation_SecondPass
    \/ Validation_EmptyTagRemoval
    \/ Validation_GeneratableFieldsPass
    \/ Validation_RequirementSweep
    \/ Validation_Canonicalize
    \/ Validation_WarningPass

Next == Validation_Start \/ Phases

NextReuse == Validation_Reuse \/ Phases

\* one validation() on a fresh instance
Spec == Init /\ [][Next]_vars

\* validation() called up to MaxCalls times on one instance
SpecReuse == Init /\ [][NextReuse]_vars

\* the tags and messages a caller of the YaraValidatorReturn methods passes
ReturnKeys == {"source", "version", "report"}

ReturnMessages == {<< "Missing Required Metadata Tag" >>,
                   << "Too Many Instances of Metadata Tag." >>}

\* YaraValidatorReturn.update_validity called on the return object
Return_UpdateValidity ==
    /\ \E rule_validity \in BOOLEAN, metadata_tag \in ReturnKeys, message \in ReturnMessages :
         valid' = update_validity(valid, rule_validity, metadata_tag, message)
    /\ UNCHANGED << required_fields, required_fields_index, required_fields_children,
                    mitre_group_alias, rule, index_of_empty_tags,
                    tags_not_initially_found, pc, args, calls, configuration >>

\* YaraValidatorReturn.update_warning called on the return object
Return_UpdateWarning ==
    /\ \E rule_warning \in BOOLEAN, warning_tag \in ReturnKeys, message \in ReturnMessages :
         valid' = update_warning(valid, rule_warning, warning_tag, message)
    /\ UNCHANGED << required_fields, required_fields_index, required_fields_children,
                    mitre_group_alias, rule, index_of_empty_tags,
                    tags_not_initially_found, pc, args, calls, configuration >>

NextReturn == Return_UpdateValidity \/ Return_UpdateWarning

\* any sequence of update_validity and update_warning calls on a new
\* YaraValidatorReturn
SpecReturn == Init /\ [][NextReturn]_vars

\* import_yara_cfg hands a declaration of the configuration to read_yara_cfg
Config_ReadYaraCfg ==
    /\ configuration.outcome = "none"
    /\ \E params \in Declarations, tag_position \in {0, 1} :
         configuration' = [declaration |-> params] @@ read_yara_cfg(params, tag_position)
    /\ UNCHANGED << required_fields, required_fields_index, required_fields_children,
                    mitre_group_alias, rule, valid, index_of_empty_tags,
                    tags_not_initially_found, pc, args, calls >>

NextConfig == Config_ReadYaraCfg

\* the construction of a YaraValidator reading one declaration
SpecConfig == Init /\ [][NextConfig]_vars

(***************************************************************************)
(* The position trackers on their own: the operations of Positional, and   *)
(* reindex_metadata_tags over the whole required_fields_index, taken in    *)
(* any order.                                                              *)
(***************************************************************************)

\* the trackers whose counts and offsets are advanced
TrackedPositions == {0, 1, 2}

Positional_IncrementCount ==
    /\ \E p \in TrackedPositions :
         /\ required_fields_index[p].count < MaxTrackerCount
         /\ required_fields_index' = increment_count(S, FieldOrder[p + 1]).rfi
    /\ UNCHANGED << required_fields, required_fields_children, mitre_group_alias, rule,
                    valid, index_of_empty_tags, tags_not_initially_found, pc, args,
                    calls, configuration >>

Positional_IncrementOffset ==
    /\ \E p \in TrackedPositions :
         required_fields_index' = [required_fields_index EXCEPT ![p] = increment_offset(@)]
    /\ UNCHANGED << required_fields, required_fields_children, mitre_group_alias, rule,
                    valid, index_of_empty_tags, tags_not_initially_found, pc, args,
                    calls, configuration >>

Positional_Reindex ==
    /\ required_fields_index' = reindex_metadata_tags(S).rfi
    /\ UNCHANGED << required_fields, required_fields_children, mitre_group_alias, rule,
                    valid, index_of_empty_tags, tags_not_initially_found, pc, args,
                    calls, configuration >>

NextPositional ==
    \/ Positional_IncrementCount
    \/ Positional_IncrementOffset
    \/ Positional_Reindex

\* the trackers of a constructed YaraValidator under their own operations
SpecPositional == Init /\ [][NextPositional]_vars

----------------------------------------------------------------------------
(* Observations the properties below are stated with *)

\* the metadata tags of the rule as validation() received them
InputTags == args.rule.metadata

\* the rule has a metadata section, ASCII text and no global scope
PassedStructuralChecks ==
    args.rule.has_metadata /\ args.string.ascii /\ args.rule.scopes = << >>

\* the call was made on the rule text as its author laid it out
UsualArguments == args = Arguments(InputTags, UsualShape)

HasKey(tags, key) == \E i \in 1..Len(tags) : tags[i].key = key

\* the diagnostics of result v hold this message for this field
Diagnosed(v, key, message) ==
    \E i \in 1..Len(v.metadata_tags) : v.metadata_tags[i] = << key, message >>

MissingRequired == << "Missing Required Metadata Tag" >>

DiagnosticSet(v) == {v.metadata_tags[i] : i \in 1..Len(v.metadata_tags)}

\* what a caller sees of a validation that returned
Outcome(s) ==
    [validity |-> s.res.rule_validity, diagnostics |-> s.res.metadata_tags,
     warnings |-> s.res.warnings, metadata |-> s.rule.metadata]

----------------------------------------------------------------------------
(* Rule-scoped state across the calls on one instance *)

\* C1: on one orchestrator instance every validation() call starts from reset
\* rule-scoped state: at the start of the call every field has found = false
\* and valid = false, every position tracker has count = 0 and offset = 0, and
\* the captured actor alias is empty, whatever was validated before.
C1_CallStartsReset ==
    pc = "structural_check" =>
        /\ \A key \in Fields :
              ~required_fields[key].found /\ ~required_fields[key].valid
        /\ \A i \in Positions :
              /\ required_fields_index[i].count = 0
              /\ required_fields_index[i].current_offset = 0
        /\ mitre_group_alias \in {NoneVal, ""}

\* t is a returned validation with the outcome of s
SameOutcome(s, t) == t.pc = "done" /\ Outcome(s) = Outcome(t)

\* C2: validation is a pure function of the rule: whatever rules were validated
\* earlier on the same instance, a call that returns yields the validity flag,
\* diagnostics, warnings and metadata that validating the same rule on a
\* freshly constructed orchestrator yields.
C2_SameAsFreshInstance ==
    pc = "done" => SameOutcome(S, RunFresh(args))

----------------------------------------------------------------------------
(* Conditional requirements *)

\* the rule holds a tag of field present and none of field absent
OnlyOneOf(tags, present, absent) == HasKey(tags, present) /\ ~HasKey(tags, absent)

\* the result is invalid and reports the field as a missing required tag
ReportedMissing(v, key) == ~v.rule_validity /\ Diagnosed(v, key, MissingRequired)

\* C3: paired presence of config dumper and config parser: a rule that holds a
\* config-dumper tag and no config-parser tag (and symmetrically) has the
\* missing partner reported as a missing required tag and is invalid.
C3_PartnerRequired ==
    (pc = "done" /\ PassedStructuralChecks) =>
        /\ OnlyOneOf(InputTags, "al_config_dumper", "al_config_parser")
              => ReportedMissing(valid, "al_config_parser")
        /\ OnlyOneOf(InputTags, "al_config_parser", "al_config_dumper")
              => ReportedMissing(valid, "al_config_dumper")

\* the value is the open-source sentinel once upper-cased
NormalizesToOpenSource(value) == Upper(value) = "OPENSOURCE"

OpenSourceWithoutReference(tags) ==
    /\ \E i \in 1..Len(tags) :
          tags[i].key = "source" /\ NormalizesToOpenSource(tags[i].value)
    /\ ~HasKey(tags, "reference")

ValidReference == Tag("reference", "http://x")

WithoutDiagnostic(diagnostics, key) == SelectSeq(diagnostics, LAMBDA e : e[1] # key)

\* r, the validation of the rule with a valid reference added, returned the
\* other diagnostics of v unchanged, and is valid when there are none
ReferenceSatisfied(v, r) ==
    /\ r.pc = "done"
    /\ r.res.metadata_tags = WithoutDiagnostic(v.metadata_tags, "reference")
    /\ r.res.rule_validity = (r.res.metadata_tags = << >>)

\* C4: on a fresh orchestrator, a rule that passes the structural checks, whose
\* source value is OPENSOURCE once upper-cased and that has no reference tag,
\* is invalid with the missing-required diagnostic for reference; the same
\* rule with a valid reference tag added at any place has the same
\* diagnostics but that one, and is valid when no other is left.
C4_SourceRequiresReference ==
    (pc = "done" /\ PassedStructuralChecks /\ OpenSourceWithoutReference(InputTags)) =>
        /\ ReportedMissing(valid, "reference")
        /\ UsualArguments =>
              \A p \in 0..Len(InputTags) :
                  ReferenceSatisfied(valid,
                      RunFresh(Arguments(Insert(InputTags, p, ValidReference), UsualShape)))

C4_Witness ==
    /\ pc = "done"
    /\ InputTags = << Tag("source", "opensource") >>
    /\ ReportedMissing(valid, "reference")
    /\ RunFresh(Arguments(<< Tag("source", "opensource"), ValidReference >>,
                          UsualShape)).res.rule_validity

RelatedPairs ==
    {{"source", "reference"}, {ACTOR, "actor_type"},
     {"al_config_dumper", "al_config_parser"}}

Swap(tags, i, j) == [tags EXCEPT ![i] = tags[j], ![j] = tags[i]]

\* the validations s and t ended alike: both raised, or both returned with
\* the same validity flag and the same set of diagnostics
SameVerdict(s, t) ==
    /\ s.pc = t.pc
    /\ s.pc = "done" =>
          /\ s.res.rule_validity = t.res.rule_validity
          /\ DiagnosticSet(s.res) = DiagnosticSet(t.res)

\* C5: conditional-requirement escalations are order-independent: two rules
\* that differ only in the relative order of two related tags (source and
\* reference, actor and actor-type, config dumper and config parser) get the
\* same validity flag and the same set of diagnostics.
C5_OrderIndependent ==
    (pc \in {"done", "raised"} /\ UsualArguments) =>
        \A i, j \in 1..Len(InputTags) :
            (i < j /\ {InputTags[i].key, InputTags[j].key} \in RelatedPairs) =>
                SameVerdict(RunFresh(args),
                            RunFresh(Arguments(Swap(InputTags, i, j), UsualShape)))

----------------------------------------------------------------------------
(* Canonical order and the rebuilt text *)

\* the tag belongs to a registered field or to an activated child key
Recognized(tag, children) ==
    tag.n = 1 /\ (tag.key \in Fields \/ tag.key \in DOMAIN children)

\* declaration position of the field a recognized tag belongs to
FieldPosition(tag, children) ==
    IF tag.key \in Fields THEN PositionOf(tag.key) ELSE PositionOf(children[tag.key])

\* the occurrences of the field declared at position p, in sequence order
OccurrencesOf(metadata, children, p) ==
    SelectSeq(metadata,
              LAMBDA t : Recognized(t, children) /\ FieldPosition(t, children) = p)

\* after holds the tags of before with the recognized ones first, in
\* declaration order of their fields and with no slot between them, the
\* occurrences of each field in the order they had in before
CanonicalOrder(before, after, children) ==
    /\ Len(after) = Len(before)
    /\ \A i, j \in 1..Len(after) :
          (i < j /\ Recognized(after[j], children)) =>
              /\ Recognized(after[i], children)
              /\ FieldPosition(after[i], children) <= FieldPosition(after[j], children)
    /\ \A p \in Positions :
          OccurrencesOf(after, children, p) = OccurrencesOf(before, children, p)

\* C6: canonical order: in the metadata sequence of every canonicalized rule
\* the tags of recognized fields appear in schema declaration order, all
\* occurrences of one field (with its activated child keys) are contiguous and
\* keep their original relative order, and a field with no occurrence
\* occupies no slot, so later fields shift left.
C6_CanonicalOrder ==
    [][(pc = "canonicalize" /\ pc' = "warning_pass") =>
          CanonicalOrder(rule.metadata, rule'.metadata, required_fields_children)]_vars

C6_Witness ==
    /\ pc = "done"
    /\ valid.validated_rule # << >>
    /\ InputTags = << Tag("hash", "h2"), Tag("source", "CCCS"), Tag("hash", "h1") >>
    /\ SubSeq(rule.metadata, Len(rule.metadata) - 2, Len(rule.metadata))
          = << Tag("source", "CCCS"), Tag("hash", "h2"), Tag("hash", "h1") >>

\* the validation of text T parsed again, on a fresh orchestrator
Revalidated(T) == RunFresh([rule |-> ParseText(T, args.rule), string |-> T])

\* r is a valid result whose canonicalized text is T
FixedPoint(T, r) ==
    r.pc = "done" /\ r.res.rule_validity /\ r.res.validated_rule = << T >>

\* C7: idempotence of canonicalization: when validating a rule yields a valid
\* result with canonicalized text T, validating T (parsed again, fresh
\* orchestrator, same date) yields a valid result whose text is T.
C7_Idempotent ==
    (pc = "done" /\ valid.validated_rule # << >>) =>
        FixedPoint(valid.validated_rule[1], Revalidated(valid.validated_rule[1]))

\* index of the first line of one of the kinds after line from, 0 when none
FirstLine(lines, kinds, from) ==
    IF \E i \in (from + 1)..Len(lines) : lines[i].kind \in kinds
    THEN CHOOSE i \in (from + 1)..Len(lines) :
            /\ lines[i].kind \in kinds
            /\ \A j \in (from + 1)..(i - 1) : lines[j].kind \notin kinds
    ELSE 0

\* the lines before the 'meta:' line and those from the next section keyword on
LinesBeforeMeta(lines) == SubSeq(lines, 1, FirstLine(lines, {"meta"}, 0) - 1)
LinesFromNextSection(lines) ==
    SubSeq(lines, FirstLine(lines, {"strings", "condition"}, FirstLine(lines, {"meta"}, 0)),
           Len(lines))

\* C8: rule text rebuilding replaces only the metadata span: for every valid
\* rule the lines of the canonicalized text before the 'meta:' line and from
\* the next section keyword on are those of the original text, for every rule
\* shape, rules with no strings section included.
C8_OnlyMetadataReplaced ==
    (pc = "done" /\ valid.validated_rule # << >>) =>
        /\ LinesBeforeMeta(valid.validated_rule[1].lines)
              = LinesBeforeMeta(valid.rule_to_validate.lines)
        /\ LinesFromNextSection(valid.validated_rule[1].lines)
              = LinesFromNextSection(valid.rule_to_validate.lines)

----------------------------------------------------------------------------
(* Generated fields and the requirement sweep *)

\* the fields the schema declares required-but-generatable
RequiredButGeneratable == {key \in Fields : SchemaOptional(key) = REQ_OPTIONAL}

\* the validators that create a tag when called for a field that has none
GeneratingValidators ==
    {"valid_uuid", "valid_fingerprint", "valid_version", "valid_first_imported",
     "valid_last_modified"}

\* the value a generating validator gives the tag it creates
GeneratedValue(key) ==
    CASE FunctionOf(key) = "valid_uuid" -> GeneratedUuid
      [] FunctionOf(key) = "valid_fingerprint" -> calculate_rule_hash(args.rule)
      [] FunctionOf(key) = "valid_version" -> "1.0"
      [] FunctionOf(key) \in {"valid_first_imported", "valid_last_modified"}
            -> current_valid_date

\* C9 as stated: every required-but-generatable field that has no tag in the
\* input rule has a tag in the metadata of the valid output, whatever its
\* validator is.
C9_GeneratedWhateverValidator ==
    (pc = "done" /\ valid.rule_validity) =>
        \A key \in RequiredButGeneratable :
            ~HasKey(InputTags, key) => HasKey(rule.metadata, key)

\* C9: every required-but-generatable field validated by a generating
\* validator (identifier, fingerprint, version, dates) that has no tag in the
\* input rule has a tag in the metadata of the valid output, with the
\* generated value (version "1.0", dates the current date); a field validated
\* by the generic regex validator is only marked found and gets no tag.
C9_GeneratedByGeneratingValidator ==
    (pc = "done" /\ valid.rule_validity) =>
        \A key \in RequiredButGeneratable :
            ~HasKey(InputTags, key) =>
                IF FunctionOf(key) \in GeneratingValidators
                THEN \E i \in 1..Len(rule.metadata) :
                        rule.metadata[i] = Tag(key, GeneratedValue(key))
                ELSE FunctionOf(key) = "valid_regex" /\ required_fields[key].found
                     /\ ~HasKey(rule.metadata, key)

C9_Witness ==
    /\ pc = "done"
    /\ valid.rule_validity
    /\ InputTags = << Tag("source", "CCCS"), Tag("id", "0123456789abcdefABCDEF") >>
    /\ rule.metadata = << Tag("id", "0123456789abcdefABCDEF"),
                          Tag("fingerprint", calculate_rule_hash(args.rule)),
                          Tag("version", "1.0"),
                          Tag("first_imported", current_valid_date),
                          Tag("last_modified", current_valid_date),
                          Tag("source", "CCCS") >>

\* the requirement sweep of this call has run
SweepHasRun ==
    PassedStructuralChecks /\ pc \in {"canonicalize", "warning_pass", "done"}

\* the field is named after a category type: the name of a category child
CategoryChildRole(key) == Upper(key) \in CategoryTypeValues

\* C10: missing-required sweep: after the generatable-fields pass every
\* registered field whose (possibly escalated) optionality is
\* required-and-provided and of which no occurrence was found yields a
\* 'Missing Required Metadata Tag' diagnostic and makes the rule invalid, the
\* fields promoted into category child roles excepted.
C10_MissingRequiredReported ==
    SweepHasRun =>
        \A key \in Fields :
            (/\ required_fields[key].optional = REQ_PROVIDED
             /\ ~required_fields[key].found
             /\ ~CategoryChildRole(key)) => ReportedMissing(valid, key)

C10_Witness ==
    /\ pc = "done"
    /\ SchemaOptional("actor_type") = OPT_OPTIONAL
    /\ required_fields["actor_type"].optional = REQ_PROVIDED
    /\ ~required_fields["actor_type"].found
    /\ required_fields["source"].found
    /\ ReportedMissing(valid, "actor_type")

----------------------------------------------------------------------------
(* Cardinality sweep *)

TooManyInstances == << "Too Many Instances of Metadata Tag." >>

\* the single-key tags of this key that carry a value
Occurrences(tags, key) ==
    Cardinality({i \in 1..Len(tags) :
                    tags[i].n = 1 /\ tags[i].key = key /\ tags[i].value # ""})

\* the field's limit is bounded and the tags exceed it
ExceedsLimit(tags, key) ==
    MaxCountOf(key) # -1 /\ Occurrences(tags, key) > MaxCountOf(key)

\* C11: cardinality sweep: a field with more occurrences in the rule than its
\* bounded cardinality limit yields a 'Too Many Instances' diagnostic and makes
\* the rule invalid; a field with an unbounded limit, or with a number of
\* occurrences at or below its limit, never yields that diagnostic. The
\* occurrences are the tags that carry a value, counted in the rule as it was
\* given and in the rule as the sweep finds it.
C11_TooManyInstances ==
    SweepHasRun =>
        \A key \in Fields :
            /\ ExceedsLimit(InputTags, key) =>
                  Diagnosed(valid, key, TooManyInstances) /\ ~valid.rule_validity
            /\ ExceedsLimit(rule.metadata, key) =>
                  Diagnosed(valid, key, TooManyInstances) /\ ~valid.rule_validity
            /\ ~ExceedsLimit(InputTags, key) => ~Diagnosed(valid, key, TooManyInstances)
            /\ ~ExceedsLimit(rule.metadata, key) => ~Diagnosed(valid, key, TooManyInstances)

C11_Witness ==
    /\ pc = "done"
    /\ InputTags = << Tag("source", "CCCS"), Tag("hash", "h1"), Tag("source", "CCCS") >>
    /\ Occurrences(InputTags, "hash") = 1 /\ MaxCountOf("hash") = -1
    /\ ExceedsLimit(InputTags, "source")
    /\ Diagnosed(valid, "source", TooManyInstances)
    /\ ~Diagnosed(valid, "hash", TooManyInstances)
    /\ ~valid.rule_validity

----------------------------------------------------------------------------
(* Empty-tag removal *)

\* the single-key tags without a value
EmptyTags(tags) == {i \in 1..Len(tags) : tags[i].n = 1 /\ tags[i].value = ""}

\* the tags that carry a value, in order
ValuedTags(tags) == SelectSeq(tags, LAMBDA t : ~(t.n = 1 /\ t.value = ""))

\* C12: empty-tag removal: for every rule that passes the structural checks the
\* empty-tag removal step completes without an index error, leaves no
\* single-key tag with an empty value in the metadata and removes no tag with
\* a value, also when the second pass has removed an unresolvable group tag
\* located before an empty tag.
C12_EmptyTagRemoval ==
    [][(PassedStructuralChecks /\ pc = "empty_tag_removal") =>
            /\ pc' = "generatable_fields_pass"
            /\ EmptyTags(rule'.metadata) = {}
            /\ ValuedTags(rule'.metadata) = ValuedTags(rule.metadata)]_vars

----------------------------------------------------------------------------
(* Category validation *)

\* the value, compared case-insensitively, is one of the configured category types
CategoryMember(value) == Upper(value) \in CategoryTypeValues

\* the category tags of the rule that carry a value
CategoryTags(tags) ==
    {i \in 1..Len(tags) : tags[i].n = 1 /\ tags[i].key = "category" /\ tags[i].value # ""}

\* C13: category validation: a category tag is valid only if its value,
\* compared case-insensitively, is a member of the configured set of category
\* types; a value that is not a member makes the category field invalid (the
\* rule is invalid with a diagnostic for the category field) and activates no
\* child field: the only keys of the child registry besides the actor's group
\* are the lower-cased category types.
C13_CategoryMembership ==
    (PassedStructuralChecks /\ pc = "done") =>
        /\ \A i \in CategoryTags(InputTags) :
              ~CategoryMember(InputTags[i].value) =>
                  /\ ~valid.rule_validity
                  /\ "category" \in DictKeys(valid.metadata_tags)
        /\ \A key \in DOMAIN required_fields_children :
              key = ArgChild(ACTOR) \/ CategoryMember(key)

----------------------------------------------------------------------------
(* Identifier *)

\* the value consists solely of digits and letters
Base62Only(value) ==
    /\ Len(value) >= 1
    /\ \A i \in 1..Len(value) :
          SubSeq(value, i, i) \in Digits \cup LowerLetters \cup UpperLetters

\* the rule holds one identifier tag, with this value
OnlyIdentifier(tags, value) ==
    /\ Occurrences(tags, "id") = 1
    /\ \E i \in 1..Len(tags) : tags[i] = Tag("id", value)

IdentifierValues == {InputTags[i].value : i \in 1..Len(InputTags)}

\* C14: identifier verification: a pre-existing identifier value is accepted
\* if and only if it consists solely of base-62 characters (digits and
\* letters) and its length is between 20 and 22 characters inclusive.
C14_IdentifierAccepted ==
    (PassedStructuralChecks /\ pc = "done") =>
        \A value \in IdentifierValues :
            OnlyIdentifier(InputTags, value) =>
                (required_fields["id"].valid
                    <=> (Base62Only(value) /\ 20 <= Len(value) /\ Len(value) <= 22))

\* the tag at this index of the metadata is an identifier tag
IdentifierAt(tags, index) == index < Len(tags) /\ At(tags, index).key = "id"

\* the identifier validator called on state s only verified the tag at index
OnlyVerified(s, t, index) ==
    /\ t.rule.metadata = s.rule.metadata
    /\ t.rf["id"].valid <=> validate_uuid(At(s.rule.metadata, index).value)

\* the identifier validator called on state s only inserted one generated tag
OnlyGenerated(s, t, index) ==
    /\ Len(t.rule.metadata) = Len(s.rule.metadata) + 1
    /\ t.rule.metadata =
          IF index < Len(s.rule.metadata)
          THEN SubSeq(s.rule.metadata, 1, index) \o << Tag("id", GeneratedUuid) >>
                   \o SubSeq(s.rule.metadata, index + 1, Len(s.rule.metadata))
          ELSE s.rule.metadata \o << Tag("id", GeneratedUuid) >>
    /\ t.rf["id"].valid

\* C15: identifier generation and verification are mutually exclusive per call
\* of the identifier validator: called on an index that holds an identifier
\* tag it only verifies the value, leaves the metadata unchanged and inserts
\* nothing; called on any other index it inserts exactly one new identifier
\* tag (at the index, or appended when the index is past the end) and reports
\* the field valid without verifying anything. Checked for a call at every
\* index in every state validation() passes through.
C15_GenerateOrVerify ==
    \A index \in 0..(Len(rule.metadata) + 1) :
        IF IdentifierAt(rule.metadata, index)
        THEN OnlyVerified(S, valid_uuid(S, index, "id"), index)
        ELSE OnlyGenerated(S, valid_uuid(S, index, "id"), index)

C15_Witness ==
    /\ pc = "requirement_sweep"
    /\ InputTags = << Tag("source", "CCCS") >>
    /\ rule.metadata[1] = Tag("id", GeneratedUuid)
    /\ Occurrences(rule.metadata, "id") = 1
    /\ required_fields["id"].valid
    /\ IdentifierAt(rule.metadata, 0)
    /\ ~IdentifierAt(rule.metadata, 1)

----------------------------------------------------------------------------
(* Content fingerprint *)

\* the values of the fingerprint tags of a metadata list
FingerprintValues(tags) ==
    {tags[i].value : i \in {j \in 1..Len(tags) : tags[j].key = "fingerprint"}}

\* a rule that holds nothing but this content
BareRule(content) ==
    [strings |-> content.strings, condition_terms |-> content.condition_terms,
     metadata |-> << >>, has_metadata |-> FALSE, scopes |-> << >>]

\* rules with the content of rule r under other metadata and another layout
Peers(r) ==
    {ContentArguments(tags, style, ContentOf(r)) :
        tags \in {<< Tag("source", "CCCS") >>,
                  << Tag("fingerprint", "h1"), Tag("source", "CCCS"), Tag("hash", "h1") >>},
        style \in {"plyara", "user"}}

\* validation() has returned a valid result for a rule that passed the checks
ReturnedValid == PassedStructuralChecks /\ pc = "done" /\ valid.rule_validity

\* C16: fingerprint determinism: two rules with identical string definitions
\* and identical condition-term sequences get the same fingerprint value,
\* whatever their metadata tags, comments or whitespace are; the fingerprint
\* computation reads nothing but the string table and the condition terms:
\* the fingerprint of a validated rule is the one computed from a rule that
\* holds its strings and condition terms only, and the one every rule of the
\* same content gets.
C16_FingerprintDeterminism ==
    ReturnedValid =>
        /\ FingerprintValues(rule.metadata) = {calculate_rule_hash(BareRule(ContentOf(args.rule)))}
        /\ \A peer \in Peers(args.rule) :
              FingerprintValues(RunFresh(peer).rule.metadata) = FingerprintValues(rule.metadata)

C16_Witness ==
    /\ ReturnedValid
    /\ InputTags = << Tag("source", "CCCS"), Tag("fingerprint", "zzz") >>
    /\ args.string.lines[1].kind = "comment"
    /\ ContentOf(args.rule) =
          [strings |-> << StringDef("$b", "y", "text", << "nocase" >>),
                          StringDef("$a", "x", "text", << >>) >>,
           condition_terms |-> << "any", "of", "them" >>]
    /\ FingerprintValues(rule.metadata) = {"sha3:anyof$x,$y nocase"}
    /\ args \notin Peers(args.rule)

\* the two string tables define the same strings in the same order, and some
\* string differs in its content or in its modifiers
SomeStringDiffers(t, u) ==
    /\ Len(t) = Len(u)
    /\ \A i \in 1..Len(t) : t[i].name = u[i].name /\ t[i].type = u[i].type
    /\ \E i \in 1..Len(t) : t[i].value # u[i].value \/ t[i].modifiers # u[i].modifiers

\* the contents differ in a string or in the condition-term sequence
ContentDiffers(c, d) ==
    \/ c.condition_terms # d.condition_terms /\ c.strings = d.strings
    \/ c.condition_terms = d.condition_terms /\ SomeStringDiffers(c.strings, d.strings)

\* C17: fingerprint sensitivity: for any two rules that differ in the content
\* of some string, in the modifiers of some string, or in the condition-term
\* sequence, the token concatenation that is hashed differs, for byte strings
\* and text strings, referenced or not by the condition. Checked for the rule
\* under validation against every rule content of the model.
C17_FingerprintSensitivity ==
    ReturnedValid =>
        \A other \in Contents :
            ContentDiffers(ContentOf(args.rule), other) =>
                /\ HashedText(BareRule(other)) # HashedText(args.rule)
                /\ calculate_rule_hash(BareRule(other)) \notin FingerprintValues(rule.metadata)

\* the arguments with every fingerprint value replaced by the computed one
WithComputedFingerprint(a) ==
    [a EXCEPT !.rule.metadata =
        [i \in 1..Len(@) |->
            IF @[i].key = "fingerprint" /\ @[i].value # ""
            THEN Tag("fingerprint", calculate_rule_hash(a.rule)) ELSE @[i]]]

\* C18: the fingerprint is fully derived: after validation of any rule that
\* passes the structural checks every fingerprint tag of the metadata carries
\* the value computed from the rule's strings and condition terms, whatever
\* value the input tag had, and an existing fingerprint value never makes the
\* rule invalid: no invalid-value diagnostic is recorded for the field, and the
\* verdict is the one the rule gets with the computed value in its place.
C18_FingerprintDerived ==
    (PassedStructuralChecks /\ pc = "done") =>
        /\ FingerprintValues(rule.metadata) \subseteq {calculate_rule_hash(args.rule)}
        /\ \A i \in 1..Len(valid.metadata_tags) :
              valid.metadata_tags[i][1] = "fingerprint" =>
                  valid.metadata_tags[i][2] = TooManyInstances
        /\ HasKey(InputTags, "fingerprint") =>
              RunFresh(WithComputedFingerprint(args)).res.rule_validity = valid.rule_validity

C18_Witness ==
    /\ ReturnedValid
    /\ InputTags = << Tag("source", "CCCS"), Tag("fingerprint", "zzz") >>
    /\ calculate_rule_hash(args.rule) # "zzz"
    /\ FingerprintValues(rule.metadata) = {calculate_rule_hash(args.rule)}
    /\ WithComputedFingerprint(args) # args

----------------------------------------------------------------------------
(* Actor group *)

\* an actor alias was captured and the knowledge base has no group for it
UnresolvableAlias ==
    /\ mitre_group_alias \notin {NoneVal, ""}
    /\ get_group_from_alias(mitre_group_alias) = ""

\* the second pass of this call has run
SecondPassHasRun ==
    PassedStructuralChecks
    /\ pc \in {"empty_tag_removal", "generatable_fields_pass", "requirement_sweep",
               "canonicalize", "warning_pass", "done"}

\* C19: unresolvable group removal: when an actor alias was captured and the
\* knowledge base has no group for it, every existing occurrence of the group
\* child field has been removed from the metadata once the second pass has
\* run, the resolver has reported success (no diagnostic is recorded under the
\* group key or its place holder), and the final metadata holds no occurrence
\* of the group child field.
C19_UnresolvableGroupRemoved ==
    /\ (SecondPassHasRun /\ UnresolvableAlias) =>
          /\ Occurrences(rule.metadata, ArgChild(ACTOR)) = 0
          /\ ArgChild(ACTOR) \notin DictKeys(valid.metadata_tags)
          /\ ArgChildPlaceHolder(ACTOR) \notin DictKeys(valid.metadata_tags)
    /\ (PassedStructuralChecks /\ pc = "done" /\ UnresolvableAlias) =>
          ~HasKey(rule.metadata, ArgChild(ACTOR))

----------------------------------------------------------------------------
(* Structural checks *)

\* validation() has been called on a rule without a metadata section and has
\* gone through its structural checks
NoMetadataChecked ==
    calls > 0 /\ ~args.rule.has_metadata /\ pc # "structural_check"

\* C20: for every rule whose parsed form has no metadata section, validation
\* returns an invalid result whose diagnostics hold exactly one entry, the
\* 'No Metadata Present' diagnostic, and no other diagnostic, whatever else is
\* wrong with the rule.
C20_NoMetadata ==
    NoMetadataChecked =>
        /\ pc = "done"
        /\ ~valid.rule_validity
        /\ valid.metadata_tags = << << "metadata", << "No Metadata Present" >> >> >>

C20_Witness ==
    /\ NoMetadataChecked
    /\ ~args.string.ascii
    /\ args.rule.scopes = << "global" >>
    /\ Len(valid.metadata_tags) = 1
    /\ Diagnosed(valid, "metadata", << "No Metadata Present" >>)

NonAsciiDiagnostic ==
    << "ascii", << "There are Non-ASCII Characters Present in the Rule." >> >>

\* validation() has been called on a text with a non-ASCII character and has
\* gone through its structural checks
NonAsciiChecked == calls > 0 /\ ~args.string.ascii /\ pc # "structural_check"

\* the result is invalid and holds the non-ASCII diagnostic only
OnlyNonAsciiDiagnostic ==
    /\ pc = "done"
    /\ ~valid.rule_validity
    /\ valid.metadata_tags = << NonAsciiDiagnostic >>

\* C21 as stated: for every rule whose raw text contains a non-ASCII character,
\* also one that fails another structural check, validation returns an invalid
\* result whose only diagnostic is the non-ASCII one.
C21_NonAsciiWhateverElse == NonAsciiChecked => OnlyNonAsciiDiagnostic

\* C21: for every rule that has a metadata section and whose raw text contains
\* a non-ASCII character, validation returns an invalid result whose only
\* diagnostic is the non-ASCII one, whatever the metadata holds and whether or
\* not the rule is global.
C21_NonAsciiWithMetadata ==
    (NonAsciiChecked /\ args.rule.has_metadata) => OnlyNonAsciiDiagnostic

C21_Witness ==
    /\ NonAsciiChecked
    /\ args.rule.has_metadata
    /\ args.rule.scopes = << "global" >>
    /\ Len(InputTags) = MaxTags
    /\ OnlyNonAsciiDiagnostic

\* the diagnostic of the first structural check the arguments fail, in the
\* order metadata, ASCII, scope
FirstFailure(a) ==
    IF ~a.rule.has_metadata THEN << "metadata", << "No Metadata Present" >> >>
    ELSE IF ~a.string.ascii THEN NonAsciiDiagnostic
    ELSE << "scopes", << "This is a Global Rule." >> >>

\* C22: a structural-check failure (no metadata, non-ASCII text, global scope)
\* is terminal: the structural check step goes directly to done with exactly
\* one diagnostic, that of the first failing check in the order metadata,
\* ASCII, scope; no field validator is invoked: the rule's metadata sequence
\* and the registry (found, valid, optionality, counts and offsets, child
\* registry, captured alias) are unchanged, no warning is recorded and no
\* canonicalized text is produced.
C22_StructuralFailureTerminal ==
    [][(pc = "structural_check" /\ ~PassedStructuralChecks) =>
          /\ pc' = "done"
          /\ ~valid'.rule_validity
          /\ valid'.metadata_tags = << FirstFailure(args) >>
          /\ rule' = rule
          /\ rule'.metadata = InputTags
          /\ required_fields' = required_fields
          /\ required_fields_index' = required_fields_index
          /\ required_fields_children' = required_fields_children
          /\ mitre_group_alias' = mitre_group_alias
          /\ ~valid'.rule_warnings /\ valid'.warnings = << >>
          /\ valid'.validated_rule = << >>]_vars

C22_Witness ==
    /\ pc = "done"
    /\ args.rule.has_metadata /\ args.string.ascii /\ args.rule.scopes = << "global" >>
    /\ InputTags = << Tag("source", "CCCS"), Tag("version", "1.0") >>
    /\ rule.metadata = InputTags
    /\ required_fields = FreshRequiredFields
    /\ valid.metadata_tags = << FirstFailure(args) >>
    /\ valid.validated_rule = << >>

\* C23: the validity flag is sticky false: in any sequence of update_validity
\* and update_warning calls on a return object, with whatever flag, tag and
\* message, once the flag is false no later call makes it true again.
C23_ValidityStickyFalse ==
    [][~valid.rule_validity => ~valid'.rule_validity]_vars

\* an invalid return object on which every tag has been recorded both as a
\* diagnostic and as a warning: calls of both methods followed the failing one
C23_Witness ==
    /\ ~valid.rule_validity
    /\ valid.rule_warnings
    /\ Len(valid.metadata_tags) = Cardinality(ReturnKeys)
    /\ Len(valid.warnings) = Cardinality(ReturnKeys)

\* C24: warnings never affect validity: the warning pass (the three warning
\* heuristics, each recording through update_warning) leaves the validity
\* flag and the diagnostics mapping as they were; at every point of a call
\* the flag is true exactly when no diagnostic has been recorded, whatever
\* warnings have been (the case-mismatch warning of the first pass included),
\* so rules that differ only in the warnings they raise have the same
\* validity; and the warning flag, once true, is never false again.
C24_WarningsLeaveValidity ==
    [][/\ pc = "warning_pass" =>
            /\ valid'.rule_validity = valid.rule_validity
            /\ valid'.metadata_tags = valid.metadata_tags
       /\ calls' > 0 => (valid'.rule_validity <=> valid'.metadata_tags = << >>)
       /\ valid.rule_warnings => valid'.rule_warnings]_vars

\* a valid rule returned with the case-mismatch warning and the two author
\* warnings
C24_Witness ==
    /\ pc = "done"
    /\ valid.rule_validity
    /\ valid.metadata_tags = << >>
    /\ valid.rule_warnings
    /\ DictKeys(valid.warnings) = {"Source", REPORT, HASH}

\* the canonicalized rule text has been set on this return object
HasValidatedRule(v) == v.validated_rule # << >>

\* C25: canonicalized text exists exactly for valid rules: when validation
\* returns, the canonicalized rule text is set if and only if the validity
\* flag is true; and the metadata is reindexed and reordered only when the
\* rule is still valid after the requirement sweep: for an invalid rule the
\* step after the sweep is the warning pass, which leaves the rule, the
\* position index and the unset text as they are.
C25_CanonicalTextIffValid ==
    [][/\ pc' = "done" => (HasValidatedRule(valid') <=> valid'.rule_validity)
       /\ (pc = "requirement_sweep" /\ pc' = "canonicalize") => valid'.rule_validity
       /\ (pc = "requirement_sweep" /\ pc' = "warning_pass") => ~valid'.rule_validity
       /\ (pc = "warning_pass" /\ ~valid.rule_validity) =>
             /\ rule' = rule
             /\ required_fields_index' = required_fields_index
             /\ ~HasValidatedRule(valid')]_vars

\* a rule the requirement sweep found invalid, returned without canonicalized
\* text and with its tags in the order they were given
C25_Witness ==
    /\ pc = "done"
    /\ PassedStructuralChecks
    /\ InputTags = << Tag("version", "zzz"), Tag("sharing", "tlp:white"), Tag("source", "CCCS") >>
    /\ ~valid.rule_validity
    /\ ~HasValidatedRule(valid)
    /\ \E i, j, k \in 1..Len(rule.metadata) :
          /\ i < j /\ j < k
          /\ rule.metadata[i].key = "version"
          /\ rule.metadata[j].key = "sharing"
          /\ rule.metadata[k].key = "source"

\* C26: the warning pass runs on every validation call that passes the
\* structural checks, valid or invalid: such a call never ends without it (it
\* ends only by returning, and it returns only from the warning pass), and the
\* warning pass is entered after the requirement sweep for an invalid rule
\* and after canonicalization for a valid one, so it reads the final rule.
C26_WarningPassAlwaysRuns ==
    [][(calls' > 0 /\ PassedStructuralChecks') =>
          /\ pc' # "raised"
          /\ pc' = "done" => pc = "warning_pass"
          /\ pc' = "warning_pass" =>
                \/ pc = "requirement_sweep" /\ ~valid'.rule_validity
                \/ pc = "canonicalize" /\ valid'.rule_validity
          /\ pc = "warning_pass" => rule' = rule]_vars

\* the author values for which the no-report warning fires
RecognizedAuthors == {"RevEng@CCCS", "reveng@CCCS"}

\* the rule was given an author tag with a recognized identity and neither a
\* report nor a hash tag
RecognizedAuthorAlone ==
    /\ \E i \in 1..Len(InputTags) :
          /\ InputTags[i].n = 1
          /\ InputTags[i].key = AUTHOR
          /\ InputTags[i].value \in RecognizedAuthors
    /\ \A i \in 1..Len(InputTags) : InputTags[i].key \notin {REPORT, HASH}

\* the warnings of result v hold this message under this tag
Warned(v, key, message) ==
    \E i \in 1..Len(v.warnings) : v.warnings[i] = << key, message >>

\* C27: author warnings: a rule that passes the structural checks with an
\* author tag whose value is a recognized organizational identity (any
\* identity for which the no-report warning fires) and with neither a report
\* nor a hash tag is returned with both the no-report and the no-hash warning.
C27_AuthorWarnings ==
    (pc = "done" /\ PassedStructuralChecks /\ RecognizedAuthorAlone) =>
        /\ valid.rule_warnings
        /\ Warned(valid, REPORT, << "Rule is authored by the CCCS but no report is referenced." >>)
        /\ Warned(valid, HASH, << "Rule is authored by the CCCS but no hash is referenced." >>)

\* the values of the single-key actor tags of a metadata sequence
ActorValues(metadata) ==
    {metadata[i].value : i \in {j \in 1..Len(metadata) :
                                   metadata[j].n = 1 /\ metadata[j].key = ACTOR}}

ActorWarning(value) == << "Actor: ", value, " was not found in MITRE ATT&CK dataset." >>

\* the alias the actor validator captured has a group in the knowledge base
GroupResolved ==
    mitre_group_alias # NoneVal /\ get_group_from_alias(mitre_group_alias) # ""

\* C28: actor warning: a rule that passes the structural checks with an actor
\* tag is returned with an actor warning whose message holds the value of an
\* actor tag of the rule that has no group in the knowledge base when no group
\* was resolved for the rule's actor, and with no actor warning when the
\* actor was resolved to a group.
C28_ActorWarning ==
    (pc = "done" /\ PassedStructuralChecks /\ Occurrences(InputTags, ACTOR) > 0) =>
        IF GroupResolved
        THEN ACTOR \notin DictKeys(valid.warnings)
        ELSE \E v \in ActorValues(rule.metadata) :
                /\ get_group_from_alias(v) = ""
                /\ Warned(valid, ACTOR, ActorWarning(v))

\* one rule returned with the warning for its unknown actor
C28_Witness ==
    /\ pc = "done"
    /\ PassedStructuralChecks
    /\ InputTags = << Tag("source", "CCCS"), Tag("actor", "nobody"), Tag("actor_type", "APT") >>
    /\ ~GroupResolved
    /\ valid.warnings = << << ACTOR, ActorWarning("NOBODY") >> >>

\* the tag has one key and a value, its key is no registered field and its
\* lower-cased key is one
MismatchedKey(tag) ==
    tag.n = 1 /\ tag.value # "" /\ tag.key \notin Fields /\ Lower(tag.key) \in Fields

CaseWarning == << "Warning, this metadata tag would be validated if it were lowercase." >>

\* the state the first pass leaves on a fresh instance for these tags
AfterFirstPass(tags) ==
    PerTagDispatch(StructuralCheck(Enter(FreshState, Arguments(tags, UsualShape))))

\* the registry, the captured alias and the diagnostics are those of state w
SameRegistryAs(w) ==
    /\ required_fields = w.rf
    /\ required_fields_index = w.rfi
    /\ required_fields_children = w.children
    /\ mitre_group_alias = w.alias
    /\ valid.rule_validity = w.res.rule_validity
    /\ valid.metadata_tags = w.res.metadata_tags

FirstPassHasRun ==
    pc \in {"second_pass", "empty_tag_removal", "generatable_fields_pass",
            "requirement_sweep", "canonicalize", "warning_pass", "done"}

\* C29: case-mismatched tag: a tag with a value whose key is no registered
\* field while its lower-cased key is one is never passed to a validator and
\* does not count as an occurrence: the first pass leaves the registry, the
\* captured alias and the diagnostics as it leaves them for the rule without
\* such tags; the tag produces the 'would be validated if it were lowercase'
\* warning under its own key; a field that must be provided and is given in
\* the wrong case only is reported missing; and in a canonicalized rule the
\* tag is kept and stands after every recognized tag.
C29_CaseMismatch ==
    (/\ PassedStructuralChecks /\ UsualArguments /\ FirstPassHasRun
     /\ \E i \in 1..Len(InputTags) : MismatchedKey(InputTags[i])) =>
        /\ pc = "second_pass" =>
              SameRegistryAs(AfterFirstPass(SelectSeq(InputTags, LAMBDA t : ~MismatchedKey(t))))
        /\ \A i \in 1..Len(InputTags) :
              MismatchedKey(InputTags[i]) => Warned(valid, InputTags[i].key, CaseWarning)
        /\ pc = "done" =>
              \A i \in 1..Len(InputTags) :
                 (/\ MismatchedKey(InputTags[i])
                  /\ SchemaOptional(Lower(InputTags[i].key)) = REQ_PROVIDED
                  /\ Occurrences(InputTags, Lower(InputTags[i].key)) = 0) =>
                     Diagnosed(valid, Lower(InputTags[i].key), MissingRequired)
        /\ (pc = "done" /\ valid.rule_validity) =>
              /\ SelectSeq(rule.metadata, MismatchedKey) = SelectSeq(InputTags, MismatchedKey)
              /\ \A i, j \in 1..Len(rule.metadata) :
                    (/\ MismatchedKey(rule.metadata[i])
                     /\ Recognized(rule.metadata[j], required_fields_children)) => j < i

\* a valid rule returned with its wrong-case tag moved behind the recognized
\* tags and warned about
C29_Witness ==
    /\ pc = "done"
    /\ UsualArguments /\ PassedStructuralChecks
    /\ InputTags = << Tag("Source", "CCCS"), Tag("source", "CCCS"), Tag("hash", "h1") >>
    /\ valid.rule_validity
    /\ Warned(valid, "Source", CaseWarning)
    /\ rule.metadata[Len(rule.metadata)] = Tag("Source", "CCCS")
    /\ required_fields_index[PositionOf("source")].count = 1

\* the tags of a sequence that belong to no registered field and to no
\* activated child key, in order
LeftoverTags(tags, children) == SelectSeq(tags, LAMBDA t : ~Recognized(t, children))

\* C30: leftover tags: in the metadata of a canonicalized rule every tag that
\* is not of a recognized field or activated child (a tag with an
\* unrecognized key, a tag with several keys) comes after all the recognized
\* tags, and the leftover tags are those the rule was given with a value, in
\* the order they were given in.
C30_LeftoverTags ==
    (pc = "done" /\ PassedStructuralChecks /\ valid.rule_validity) =>
        /\ \A i, j \in 1..Len(rule.metadata) :
              (/\ ~Recognized(rule.metadata[i], required_fields_children)
               /\ Recognized(rule.metadata[j], required_fields_children)) => j < i
        /\ LeftoverTags(rule.metadata, required_fields_children)
              = LeftoverTags(ValuedTags(InputTags), required_fields_children)

\* a valid rule given an unrecognized tag, its source and a tag with two keys:
\* the two leftover tags end the canonicalized metadata in that order
C30_Witness ==
    /\ pc = "done"
    /\ PassedStructuralChecks
    /\ valid.rule_validity
    /\ InputTags = << Tag("zzz", "zzz"), Tag("source", "CCCS"), MultiTag("source", "CCCS") >>
    /\ Len(rule.metadata) > 3
    /\ SubSeq(rule.metadata, Len(rule.metadata) - 1, Len(rule.metadata))
          = << Tag("zzz", "zzz"), MultiTag("source", "CCCS") >>

LAST_MODIFIED == "last_modified"

----------------------------------------------------------------------------
(* Registry compilation *)

\* the declaration read last uses the generic regex validator
RegexDeclared == configuration.declaration.validator = "valid_regex"

DeclaredArgument == configuration.declaration.argument

\* the forms of the argument: the inline pattern, and the two halves of the
\* reference to a file of values
InlineGiven == DeclaredArgument.kind = "dict" /\ Truthy(DeclaredArgument.regexExpression)
FileNameGiven == DeclaredArgument.kind = "dict" /\ Truthy(DeclaredArgument.fileName)
ValueNameGiven == DeclaredArgument.kind = "dict" /\ Truthy(DeclaredArgument.valueName)

\* C32: regex-validator declarations: read_yara_cfg ends in exit(1) when a
\* declaration that uses valid_regex gives both an inline pattern and a file
\* reference (or a part of one), or gives neither, a file reference without
\* its file name or without its value name being no reference; the
\* declaration is registered only when exactly one complete form is given.
C32_RegexDeclarationExclusive ==
    (configuration.outcome # "none" /\ RegexDeclared) =>
        /\ (InlineGiven /\ (FileNameGiven \/ ValueNameGiven)) => configuration.outcome = "exit"
        /\ (~InlineGiven /\ ~(FileNameGiven /\ ValueNameGiven)) => configuration.outcome = "exit"
        /\ configuration.outcome = "registered" =>
              \/ InlineGiven /\ ~FileNameGiven /\ ~ValueNameGiven
              \/ ~InlineGiven /\ FileNameGiven /\ ValueNameGiven

\* a declaration registered with the pattern read from the file of values
C32_Witness ==
    /\ RegexDeclared
    /\ configuration.outcome = "registered"
    /\ FileNameGiven /\ ValueNameGiven /\ ~InlineGiven
    /\ configuration.attributes.argument.regexExpression = "^INFO$|^MALWARE$"
    /\ configuration.attributes.function = "valid_regex"

(***************************************************************************)
(* C33  Position tracker invariant: for every position tracker, in every   *)
(* state, index() is starting_index + current_offset and the offset lies   *)
(* between 0 and max(count - 1, 0); a step of increment_offset moves the   *)
(* offset one further, or back to 0 when one further reaches count.        *)
(***************************************************************************)
LargestOffset(p) == IF p.count - 1 > 0 THEN p.count - 1 ELSE 0

TrackerWithinCount(p) ==
    /\ PositionalIndex(p) = p.starting_index + p.current_offset
    /\ 0 <= p.current_offset
    /\ p.current_offset <= LargestOffset(p)

OffsetAdvanced(before, after) ==
    after.current_offset =
        IF before.current_offset + 1 >= before.count
        THEN 0 ELSE before.current_offset + 1

C33_TrackerInvariant ==
    [][\A p \in Positions :
          /\ TrackerWithinCount(required_fields_index[p])
          /\ TrackerWithinCount(required_fields_index'[p])
          /\ (Positional_IncrementOffset /\ required_fields_index'[p] # required_fields_index[p]
                => OffsetAdvanced(required_fields_index[p], required_fields_index'[p]))]_vars

\* a tracker with two occurrences standing on its last slot, after a reindexing
C33_Witness ==
    /\ required_fields_index[1].count = 2
    /\ required_fields_index[1].current_offset = 1
    /\ required_fields_index[1].starting_index = 2
    /\ PositionalIndex(required_fields_index[1]) = 3

(***************************************************************************)
(* C34  Reindexing is a prefix sum: after reindex_metadata_tags the        *)
(* starting index of the tracker at position i is the sum of the counts of *)
(* the trackers at positions 0..i-1 (0 at position 0), a tracker with no   *)
(* occurrence taking a slot of width zero; counts and offsets are left as  *)
(* they were.                                                              *)
(***************************************************************************)
RECURSIVE SumOfCounts(_, _)
SumOfCounts(rfi, i) == IF i = 0 THEN 0 ELSE SumOfCounts(rfi, i - 1) + rfi[i - 1].count

C34_ReindexPrefixSum ==
    [][Positional_Reindex =>
         \A i \in Positions :
            /\ required_fields_index'[i].starting_index = SumOfCounts(required_fields_index, i)
            /\ required_fields_index'[i].count = required_fields_index[i].count
            /\ required_fields_index'[i].current_offset =
                   required_fields_index[i].current_offset]_vars

\* position 1 has no occurrence and takes no room between positions 0 and 2
C34_Witness ==
    /\ required_fields_index[0].count = 2
    /\ required_fields_index[0].current_offset = 1
    /\ required_fields_index[1].count = 0
    /\ required_fields_index[1].starting_index = 2
    /\ required_fields_index[2].count = 1
    /\ required_fields_index[2].starting_index = 2
    /\ required_fields_index[3].starting_index = 3

(***************************************************************************)
(* C35  Second pass: the queue of tags the first pass did not recognize is *)
(* processed in reverse discovery order; a queued tag is dispatched to a   *)
(* validator if and only if its key is a child field that a parent tag of  *)
(* the same rule activated during the first pass; every dispatched tag is  *)
(* validated at the index where it sits in the metadata sequence at that   *)
(* moment, also after an earlier dispatch of the second pass removed a     *)
(* tag.                                                                    *)
(***************************************************************************)
RECURSIVE CurrentIndex(_, _)
\* where the tag discovered at index sits once the tags at the positions of
\* removed, taken in turn, have left the sequence
CurrentIndex(index, removed) ==
    IF removed = << >> THEN index
    ELSE CurrentIndex(IF Head(removed) < index THEN index - 1 ELSE index, Tail(removed))

RECURSIVE SecondAsStated(_, _, _, _)
\* the queue taken from its head: a tag whose queued key is in activated is
\* validated where it now sits, any other tag is passed over
SecondAsStated(s, queue, activated, removed) ==
    IF s.exc # NoException \/ queue = << >> THEN s
    ELSE LET key == Head(queue)[1]
             index == CurrentIndex(Head(queue)[2], removed)
             s1 == IF key \in activated THEN process_key(s, key, TRUE, index) ELSE s
         IN SecondAsStated(s1, Tail(queue), activated,
                           IF Len(s1.rule.metadata) < Len(s.rule.metadata)
                           THEN Append(removed, index) ELSE removed)

SecondPassAsStated ==
    Finish([SecondAsStated(S, Reverse(tags_not_initially_found),
                           DOMAIN required_fields_children, << >>)
            EXCEPT !.pc = "empty_tag_removal"])

\* the queue is in discovery order when the second pass begins
InDiscoveryOrder(queue) ==
    \A i, j \in 1..Len(queue) : i < j => queue[i][2] < queue[j][2]

C35_SecondPass ==
    [][pc = "second_pass" =>
         /\ InDiscoveryOrder(tags_not_initially_found)
         /\ tags_not_initially_found' = Reverse(tags_not_initially_found)
         /\ required_fields' = SecondPassAsStated.rf
         /\ required_fields_index' = SecondPassAsStated.rfi
         /\ required_fields_children' = SecondPassAsStated.children
         /\ mitre_group_alias' = SecondPassAsStated.alias
         /\ rule' = SecondPassAsStated.rule
         /\ valid' = SecondPassAsStated.res
         /\ pc' = SecondPassAsStated.pc]_vars

\* two group tags ahead of an actor whose alias resolves to no group: the
\* later one was removed first, then the earlier one at the index it kept
C35_Witness ==
    /\ pc = "empty_tag_removal"
    /\ InputTags = << Tag("mitre_group", "zzz"), Tag("mitre_group", "zzz"),
                      Tag("actor", "nobody") >>
    /\ tags_not_initially_found = << << "mitre_group", 1 >>, << "mitre_group", 0 >> >>
    /\ rule.metadata = << Tag("actor", "NOBODY") >>

(***************************************************************************)
(* C36  Actor escalation.  As stated: when the value of an actor tag       *)
(* matches the alias pattern, directly or after upper-casing, the sibling  *)
(* field named by the actor declaration becomes required-and-generatable   *)
(* and the matched alias is stored for the group resolver; when it does    *)
(* not match, the actor is invalid, no alias is stored, no child is        *)
(* activated and the sibling's optionality is unchanged.                   *)
(***************************************************************************)
\* the values of the actor tags the first pass hands to the actor validator
ActorTagValues(tags) ==
    LET actors == SelectSeq(tags, LAMBDA t : t.n = 1 /\ t.key = ACTOR /\ t.value # "")
    IN [i \in 1..Len(actors) |-> actors[i].value]

MatchesAlias(value) == FullMatchAlias(value) \/ FullMatchAlias(Upper(value))
AliasOf(value) == IF FullMatchAlias(value) THEN value ELSE Upper(value)
MatchingActors(tags) == SelectSeq(ActorTagValues(tags), MatchesAlias)
Last(seq) == seq[Len(seq)]

\* the alias of the last matching actor is stored and the group child is
\* activated under the place holder of the declaration
AliasCaptured(tags) ==
    /\ mitre_group_alias = AliasOf(Last(MatchingActors(tags)))
    /\ ArgChild(ACTOR) \in DOMAIN required_fields_children
    /\ required_fields_children[ArgChild(ACTOR)] = ArgChildPlaceHolder(ACTOR)

NothingCaptured ==
    /\ mitre_group_alias = NoneVal
    /\ ArgChild(ACTOR) \notin DOMAIN required_fields_children

ActorProcessed ==
    PassedStructuralChecks /\ FirstPassHasRun /\ ActorTagValues(InputTags) # << >>

C36_EscalationOnMatch ==
    ActorProcessed =>
        IF MatchingActors(InputTags) # << >>
        THEN /\ required_fields[ArgRequired(ACTOR)].optional = REQ_OPTIONAL
             /\ AliasCaptured(InputTags)
        ELSE /\ ~required_fields[ACTOR].valid
             /\ NothingCaptured
             /\ required_fields[ArgRequired(ACTOR)].optional =
                    SchemaOptional(ArgRequired(ACTOR))

\* C36 as the code has it: an actor tag with a value makes the field named by
\* the declaration's required argument required-and-provided whether or not
\* the value matches the alias pattern; the actor is valid exactly when the
\* value of its last tag matches, directly or after upper-casing; on a match
\* the alias is stored and the group child is activated; when no actor value
\* matches, no alias is stored and no child is activated.  Without an actor
\* tag the field keeps the optionality of its declaration.
C36_EscalationOnPresence ==
    (PassedStructuralChecks /\ FirstPassHasRun) =>
        IF ActorTagValues(InputTags) = << >>
        THEN /\ required_fields[ArgRequired(ACTOR)].optional =
                    SchemaOptional(ArgRequired(ACTOR))
             /\ NothingCaptured
        ELSE /\ required_fields[ArgRequired(ACTOR)].optional = REQ_PROVIDED
             /\ required_fields[ACTOR].valid = MatchesAlias(Last(ActorTagValues(InputTags)))
             /\ IF MatchingActors(InputTags) # << >>
                THEN AliasCaptured(InputTags)
                ELSE NothingCaptured

\* an actor whose value does not match the pattern, alone in the rule: the
\* rule is returned without the actor type it now requires
C36_Witness ==
    /\ pc = "done"
    /\ PassedStructuralChecks
    /\ InputTags = << Tag("actor", "bad_actor") >>
    /\ ~required_fields[ACTOR].valid
    /\ required_fields[ArgRequired(ACTOR)].optional = REQ_PROVIDED
    /\ Diagnosed(valid, ArgRequired(ACTOR), MissingRequired)
    /\ NothingCaptured

(***************************************************************************)
(* C37  Fingerprint order-independence: permuting the order in which the   *)
(* strings are defined in the string table of a rule, byte strings and     *)
(* text strings alike, with the condition-term sequence unchanged, leaves  *)
(* the fingerprint unchanged.  Checked for the rule under validation       *)
(* against every rule content of the model.                                *)
(***************************************************************************)
\* u defines the strings of t, each once, in some order
PermutationOf(t, u) ==
    /\ Len(t) = Len(u)
    /\ \A i \in 1..Len(t) :
          Cardinality({j \in 1..Len(t) : t[j] = t[i]})
              = Cardinality({j \in 1..Len(u) : u[j] = t[i]})

Reordered(c, d) ==
    /\ c.condition_terms = d.condition_terms
    /\ PermutationOf(c.strings, d.strings)
    /\ c.strings # d.strings

C37_FingerprintOrderIndependence ==
    ReturnedValid =>
        \A other \in Contents :
            Reordered(ContentOf(args.rule), other) =>
                FingerprintValues(rule.metadata) = {calculate_rule_hash(BareRule(other))}

(***************************************************************************)
(* C38  Diagnostics and validity agree: at the return of every validation  *)
(* call the validity flag is false if and only if the diagnostics mapping  *)
(* is not empty, and the mapping holds at most one message for a field     *)
(* name; a diagnostic recorded for a field that already has one replaces   *)
(* the earlier message, the field keeping its place in the mapping.        *)
(***************************************************************************)
OneMessagePerField(v) ==
    \A i, j \in 1..Len(v.metadata_tags) :
        v.metadata_tags[i][1] = v.metadata_tags[j][1] => i = j

C38_DiagnosticsAgreeWithValidity ==
    [][/\ pc' = "done" =>
            /\ ~valid'.rule_validity <=> valid'.metadata_tags # << >>
            /\ OneMessagePerField(valid')
       /\ (calls' = calls /\ pc' # "raised") =>
            /\ Len(valid'.metadata_tags) >= Len(valid.metadata_tags)
            /\ \A i \in 1..Len(valid.metadata_tags) :
                  valid'.metadata_tags[i][1] = valid.metadata_tags[i][1]]_vars

\* two actor tags with a value that is no alias: the diagnostic of the
\* requirement sweep has replaced the one the first pass recorded for actor
C38_Witness ==
    /\ pc = "done"
    /\ InputTags = << Tag("actor", "bad_actor"), Tag("actor", "bad_actor") >>
    /\ ~valid.rule_validity
    /\ Diagnosed(valid, ACTOR, TooManyInstances)
    /\ ~Diagnosed(valid, ACTOR, << "Field has Invalid Value:", "bad_actor" >>)
    /\ OneMessagePerField(valid)

(***************************************************************************)
(* C39  Canonical reordering is a permutation: for every rule that reaches *)
(* canonicalization on a freshly constructed instance, the reordered       *)
(* metadata sequence holds exactly the tags of the sequence before the     *)
(* reordering, each once: every slot is filled, no tag is overwritten or   *)
(* dropped, no placement index is out of range, and the sum of the         *)
(* trackers' counts equals the number of recognized tags.                  *)
(***************************************************************************)
RecognizedCount(tags, children) ==
    Len(SelectSeq(tags, LAMBDA t : Recognized(t, children)))

C39_CanonicalPermutation ==
    [][(PassedStructuralChecks /\ pc = "canonicalize") =>
          /\ SumOfCounts(required_fields_index, NumFields)
                 = RecognizedCount(rule.metadata, required_fields_children)
          /\ pc' = "warning_pass"
          /\ PermutationOf(rule.metadata, rule'.metadata)
          /\ \A i \in 1..Len(rule'.metadata) : rule'.metadata[i] # NoneTag]_vars

====
